---- MODULE Spec2Model ----
(***************************************************************************)
(* Project approval workflow of the project-management backend:            *)
(* ProjectViewSet's workflow actions (projects/views.py), the permission   *)
(* check they call (authentication/utils.py, authentication/models.py)     *)
(* and the audit log they write.                                           *)
(*                                                                         *)
(* Spec      : one request at a time, every handler runs to completion.    *)
(* SpecConc  : two requests in flight on the same project, every database  *)
(*             statement of a handler is a step of its own (the project    *)
(*             sets no ATOMIC_REQUESTS and opens no transaction, so every  *)
(*             statement autocommits).                                     *)
(***************************************************************************)
EXTENDS Integers, Sequences, FiniteSets, TLC

\* ---------------------------------------------------------------- bounds
\* number of committed (state changing) requests that are explored
MaxTime == 2

\* number of Payment rows that are explored
MaxPayments == 3
\* number of committed ledger operations that are explored
MaxOps == 4

\* ------------------------------------------------------------- the actors
None == "None"

Tenants == {"t1", "t2"}
Roles == {"company_super_admin", "Manager", "staff_user"}
Permissions == {"can_edit", "can_sign"}
Stages == {"s1", "s2"}
Projects == {"p1", "p2"}
PendingChanges == {"c1"}

\* rows of the authentication_user table (fields the workflow reads)
User ==
  [ root  |-> [is_superuser |-> TRUE,  is_staff |-> TRUE,  role |-> None,                  tenant |-> None],
    admin |-> [is_superuser |-> FALSE, is_staff |-> TRUE,  role |-> "company_super_admin", tenant |-> "t1"],
    mgr   |-> [is_superuser |-> FALSE, is_staff |-> FALSE, role |-> "Manager",             tenant |-> "t1"],
    guest |-> [is_superuser |-> FALSE, is_staff |-> FALSE, role |-> None,                  tenant |-> "t1"],
    alien |-> [is_superuser |-> FALSE, is_staff |-> FALSE, role |-> "Manager",             tenant |-> "t2"],
    staff |-> [is_superuser |-> FALSE, is_staff |-> FALSE, role |-> "staff_user",          tenant |-> "t1"] ]

\* the users whose workflow requests are explored
Users == {"root", "admin", "mgr", "guest", "alien"}

\* WorkflowRule.ACTION_CHOICES that the workflow endpoints look up
GatedActions == {"submit", "approve", "reject", "delete_request", "delete_approve"}

\* Project.approval_status choices
ApprovalStatuses ==
  {"draft", "pending", "approved", "rejected", "final_approved",
   "delete_requested", "delete_approved"}

\* outcomes of a request
Outcomes == {"OK", "ValidationError", "InvalidState", "PermissionDenied", "NotFound", "ServerError"}

\* request bodies that are explored
NotesInputs == {"", "note"}
StageCodeInputs == {"", "s1", "s2", "zz"}
\* edits of the tables that are explored: a role's permission set, a rule's and
\* a stage's is_active flag
RoleInputs == {"Manager"}
PermissionSetInputs == {{}, {"can_edit", "can_sign"}}
RuleInputs == {<<"s1", "submit">>, <<"s1", "delete_approve">>, <<"s2", "approve">>}
StageInputs == {"s2"}
\* projects the workflow requests are made on
ProjectInputs == {"p1"}
\* bodies of POST /pending-changes/ that are explored: an update of project p1
\* filed for mgr in tenant t1 that writes approval_status
PendingChangeInputs ==
  {[requested_by |-> "mgr", tenant |-> "t1", action |-> "update",
    model_name |-> "Project", object_id |-> "p1",
    data |-> [approval_status |-> "final_approved"]]}

\* no Project object is held in memory
NoInstance == [loaded |-> FALSE]

NoRule == [exists |-> FALSE, is_active |-> FALSE, required_permission |-> None, allowed_roles |-> {}]
Deleted == [exists |-> FALSE]

VARIABLES
  role_permissions,  \* Role.permissions       : role -> set of permission codes
  rules,             \* WorkflowRule rows      : <<stage, action>> -> rule
  stage_active,      \* WorkflowStage.is_active: stage code -> BOOLEAN
  projects,          \* Project rows           : project -> row, or Deleted
  payments,          \* Payment rows (children of a project): set of [id, project]
  audit,             \* AuditLog rows in insertion order
  now,               \* timezone.now(), advanced by every committed request
  pending_changes,   \* PendingChange rows    : id -> row, or Deleted
  last,              \* the last request and its response
  reqs,              \* requests in flight (SpecConc only)
  stage_deleted,     \* WorkflowStage rows that were deleted: set of stage codes
  contracts,         \* Contract rows         : project -> row, or Deleted
  today,             \* timezone.now().date() as a day number
  in_memory,         \* a Project object held in memory by a caller (SpecPay only)
  fault              \* the step of the status recomputation that raises, if any

vars ==
  <<role_permissions, rules, stage_active, projects, payments, audit, now,
    pending_changes, last, reqs, stage_deleted, contracts, today, in_memory, fault>>

\* the tables of the payment ledger side, which no workflow request writes
pay_vars == <<contracts, today, in_memory, fault>>

\* ------------------------------------------------- permission check (pure)
\* User.has_permission: superuser, else the role's permission set, read now
has_permission(user, permission_code) ==
  IF User[user].is_superuser THEN TRUE
  ELSE IF User[user].role # None
       THEN permission_code \in role_permissions[User[user].role]
       ELSE FALSE

\* variant: the rule is looked up without is_active=True
check_workflow_permission_any_rule(user, stage, action) ==
  IF User[user].is_superuser THEN TRUE
  ELSE LET rule == rules[<<stage, action>>] IN
       IF ~rule.exists THEN FALSE
       ELSE \/ /\ User[user].role # None
               /\ rule.required_permission # None
               /\ has_permission(user, rule.required_permission)
            \/ /\ rule.allowed_roles # {}
               /\ User[user].role # None
               /\ User[user].role \in rule.allowed_roles

\* authentication.utils.check_workflow_permission
check_workflow_permission(user, stage, action) ==
  IF User[user].is_superuser THEN TRUE
  ELSE LET rule == rules[<<stage, action>>] IN
       IF ~(rule.exists /\ rule.is_active) THEN FALSE   \* WorkflowRule.DoesNotExist
       ELSE IF /\ User[user].role # None
               /\ rule.required_permission # None
               /\ has_permission(user, rule.required_permission)
            THEN TRUE
       ELSE IF /\ rule.allowed_roles # {}
               /\ User[user].role # None
               /\ User[user].role \in rule.allowed_roles
            THEN TRUE
       ELSE FALSE

\* authentication.utils.is_company_admin
is_company_admin(user) ==
  IF User[user].is_superuser THEN FALSE
  ELSE User[user].role # None /\ User[user].role = "company_super_admin"

\* authentication.utils.can_final_approve
can_final_approve(user) ==
  IF User[user].is_superuser THEN TRUE
  ELSE IF is_company_admin(user) THEN TRUE
  ELSE FALSE

\* ProjectViewSet.get_queryset: the projects a user's requests can resolve
get_queryset(user) ==
  IF User[user].is_superuser
  THEN {p \in Projects : projects[p].exists}
  ELSE IF User[user].tenant # None
       THEN {p \in Projects : projects[p].exists /\ projects[p].tenant = User[user].tenant}
       ELSE {}

\* ------------------------------------------------------------ audit log
\* one AuditLog row as log_audit builds it
AuditRow(user, action, model_name, object_id, stage, before, after) ==
  [user |-> user, action |-> action, model_name |-> model_name,
   object_id |-> object_id, stage |-> stage,
   changes |-> [before |-> before, after |-> after]]

\* authentication.utils.log_audit: AuditLog.objects.create(...), nothing caught.
\* stored = FALSE is the insert raising (for one, the ip_address taken from the
\* X-Forwarded-For header is no valid inet value): the row is not written.
log_audit(log, stored, row) ==
  IF stored THEN Append(log, row) ELSE log

\* the response of a handler whose last statement before the Response is log_audit
AfterAudit(stored) == IF stored THEN "OK" ELSE "ServerError"

Request(op, user, project, arg, outcome) ==
  [op |-> op, user |-> user, project |-> project, arg |-> arg, outcome |-> outcome]

NoReq == [pc |-> "idle"]

\* --------------------------------------------------------- Project rows
\* a Project row as Project.objects.create leaves it (model defaults)
NewProject(tenant, stage) ==
  [exists |-> TRUE, tenant |-> tenant, current_stage |-> stage,
   approval_status |-> "draft", status |-> "not_started",
   delete_requested_by |-> None, delete_requested_at |-> None, delete_reason |-> "",
   delete_approved_by |-> None, delete_approved_at |-> None,
   last_approved_by |-> None, last_approved_at |-> None, approval_notes |-> ""]

\* variant: Model.save() without update_fields, every column is written
save_every_field(row, instance, update_fields) == instance

\* Model.save(update_fields=...): UPDATE of the named columns only, with the
\* values the in-memory instance holds
save(row, instance, update_fields) ==
  [f \in DOMAIN row |-> IF f \in update_fields THEN instance[f] ELSE row[f]]

\* a Payment row (the fields the status derivation reads); created_at is the
\* order of insertion, which the id gives
PaymentRow(id, project, amount, date) ==
  [id |-> id, project |-> project, amount |-> amount, date |-> date, created_at |-> id]

\* Model.delete() of a project: the row and, by on_delete=CASCADE, its payments
delete_cascade(rows, p) == {x \in rows : x.project # p}

\* ------------------------------------------------ the workflow handlers
\* Each handler is: get_object, the checks in source order, the assignments,
\* save(update_fields), log_audit, (delete), Response.

\* submit: views.py 242-253
submit_checks(user, project) ==
  IF project.current_stage = None THEN "InvalidState"
  ELSE IF ~check_workflow_permission(user, project.current_stage, "submit")
       THEN "PermissionDenied"
  ELSE "pass"

\* submit: views.py 256
submit_assign(project) == [project EXCEPT !.approval_status = "pending"]

submit_fields == {"approval_status"}

\* variant: permission looked at before the stage
approve_checks_permission_first(user, project) ==
  IF /\ ~User[user].is_superuser
     /\ \/ project.current_stage = None
        \/ ~check_workflow_permission(user, project.current_stage, "approve")
  THEN "PermissionDenied"
  ELSE IF project.current_stage = None THEN "InvalidState"
  ELSE "pass"

\* approve: views.py 285-296
approve_checks(user, project) ==
  IF project.current_stage = None THEN "InvalidState"
  ELSE IF ~check_workflow_permission(user, project.current_stage, "approve")
       THEN "PermissionDenied"
  ELSE "pass"

\* variant: a regular approval that records final_approved
approve_assign_final(project, user, notes, t) ==
  [project EXCEPT !.approval_status = "final_approved", !.last_approved_by = user,
                  !.last_approved_at = t, !.approval_notes = notes]

\* variant: the notes are not taken over
approve_assign_without_notes(project, user, notes, t) ==
  [project EXCEPT !.approval_status = "approved", !.last_approved_by = user,
                  !.last_approved_at = t]

\* approve: views.py 299-302
approve_assign(project, user, notes, t) ==
  [project EXCEPT !.approval_status = "approved", !.last_approved_by = user,
                  !.last_approved_at = t, !.approval_notes = notes]

approve_fields == {"approval_status", "last_approved_by", "last_approved_at", "approval_notes"}

\* variant: the notes are looked at after stage and permission
reject_checks_notes_last(user, project, notes) ==
  IF project.current_stage = None THEN "InvalidState"
  ELSE IF ~check_workflow_permission(user, project.current_stage, "reject")
       THEN "PermissionDenied"
  ELSE IF notes = "" THEN "ValidationError"
  ELSE "pass"

\* reject: views.py 332-349
reject_checks(user, project, notes) ==
  IF notes = "" THEN "ValidationError"
  ELSE IF project.current_stage = None THEN "InvalidState"
  ELSE IF ~check_workflow_permission(user, project.current_stage, "reject")
       THEN "PermissionDenied"
  ELSE "pass"

\* reject: views.py 352-355
reject_assign(project, user, notes, t) ==
  [project EXCEPT !.approval_status = "rejected", !.last_approved_by = user,
                  !.last_approved_at = t, !.approval_notes = notes]

reject_fields == {"approval_status", "last_approved_by", "last_approved_at", "approval_notes"}

\* request_delete: views.py 385-402
request_delete_checks(user, project, reason) ==
  IF reason = "" THEN "ValidationError"
  ELSE IF project.current_stage = None THEN "InvalidState"
  ELSE IF ~check_workflow_permission(user, project.current_stage, "delete_request")
       THEN "PermissionDenied"
  ELSE "pass"

\* request_delete: views.py 405-408
request_delete_assign(project, user, reason, t) ==
  [project EXCEPT !.approval_status = "delete_requested", !.delete_requested_by = user,
                  !.delete_requested_at = t, !.delete_reason = reason]

request_delete_fields ==
  {"approval_status", "delete_requested_by", "delete_requested_at", "delete_reason"}

\* variant: the status is not looked at
approve_delete_checks_any_status(user, project) ==
  IF project.current_stage = None THEN "InvalidState"
  ELSE IF ~check_workflow_permission(user, project.current_stage, "delete_approve")
       THEN "PermissionDenied"
  ELSE "pass"

\* approve_delete: views.py 436-453
approve_delete_checks(user, project) ==
  IF project.approval_status # "delete_requested" THEN "InvalidState"
  ELSE IF project.current_stage = None THEN "InvalidState"
  ELSE IF ~check_workflow_permission(user, project.current_stage, "delete_approve")
       THEN "PermissionDenied"
  ELSE "pass"

\* approve_delete: views.py 456-458
approve_delete_assign(project, user, t) ==
  [project EXCEPT !.approval_status = "delete_approved", !.delete_approved_by = user,
                  !.delete_approved_at = t]

approve_delete_fields == {"approval_status", "delete_approved_by", "delete_approved_at"}

\* variant: the stage is looked up by code alone, active or not
move_to_stage_checks_any_stage(user, stage_code) ==
  IF stage_code = "" THEN "ValidationError"
  ELSE IF ~User[user].is_staff THEN "PermissionDenied"
  ELSE IF stage_code \notin Stages \ stage_deleted THEN "NotFound"
  ELSE "pass"

\* move_to_stage: views.py 492-511
move_to_stage_checks(user, stage_code) ==
  IF stage_code = "" THEN "ValidationError"
  ELSE IF ~User[user].is_staff THEN "PermissionDenied"
  ELSE IF ~(stage_code \in Stages \ stage_deleted /\ stage_active[stage_code])
       THEN "NotFound"
  ELSE "pass"

\* variant: the stage is changed, the status kept
move_to_stage_assign_keep_status(project, stage_code) ==
  [project EXCEPT !.current_stage = stage_code]

\* move_to_stage: views.py 514-515
move_to_stage_assign(project, stage_code) ==
  [project EXCEPT !.current_stage = stage_code, !.approval_status = "draft"]

move_to_stage_fields == {"current_stage", "approval_status"}

\* a request that is answered without any write
Refuse(op, user, p, arg, outcome) ==
  /\ last' = Request(op, user, p, arg, outcome)
  /\ UNCHANGED <<role_permissions, rules, stage_active, projects, payments, audit, now,
                 pending_changes, reqs, stage_deleted, pay_vars>>

\* a request that saved the project row and then called log_audit
Commit(op, user, p, arg, row, stored, entry) ==
  /\ now < MaxTime
  /\ projects' = [projects EXCEPT ![p] = row]
  /\ audit' = log_audit(audit, stored, entry)
  /\ now' = now + 1
  /\ last' = Request(op, user, p, arg, AfterAudit(stored))
  /\ UNCHANGED <<role_permissions, rules, stage_active, payments, pending_changes, reqs, stage_deleted, pay_vars>>

\* ProjectViewSet.submit
submit(user, p) ==
  IF p \notin get_queryset(user) THEN Refuse("submit", user, p, "", "NotFound")
  ELSE LET project == projects[p]
           verdict == submit_checks(user, project) IN
       IF verdict # "pass" THEN Refuse("submit", user, p, "", verdict)
       ELSE \E stored \in BOOLEAN :
              Commit("submit", user, p, "",
                     save(project, submit_assign(project), submit_fields), stored,
                     AuditRow(user, "submit", "Project", p, project.current_stage, None, None))

\* ProjectViewSet.approve
approve(user, p, notes) ==
  IF p \notin get_queryset(user) THEN Refuse("approve", user, p, notes, "NotFound")
  ELSE LET project == projects[p]
           verdict == approve_checks(user, project) IN
       IF verdict # "pass" THEN Refuse("approve", user, p, notes, verdict)
       ELSE \E stored \in BOOLEAN :
              Commit("approve", user, p, notes,
                     save(project, approve_assign(project, user, notes, now), approve_fields),
                     stored,
                     AuditRow(user, "approve", "Project", p, project.current_stage,
                              "pending", "approved"))

\* ProjectViewSet.reject
reject(user, p, notes) ==
  IF p \notin get_queryset(user) THEN Refuse("reject", user, p, notes, "NotFound")
  ELSE LET project == projects[p]
           verdict == reject_checks(user, project, notes) IN
       IF verdict # "pass" THEN Refuse("reject", user, p, notes, verdict)
       ELSE \E stored \in BOOLEAN :
              Commit("reject", user, p, notes,
                     save(project, reject_assign(project, user, notes, now), reject_fields),
                     stored,
                     AuditRow(user, "reject", "Project", p, project.current_stage,
                              "pending", "rejected"))

\* ProjectViewSet.request_delete
request_delete(user, p, reason) ==
  IF p \notin get_queryset(user) THEN Refuse("request_delete", user, p, reason, "NotFound")
  ELSE LET project == projects[p]
           verdict == request_delete_checks(user, project, reason) IN
       IF verdict # "pass" THEN Refuse("request_delete", user, p, reason, verdict)
       ELSE \E stored \in BOOLEAN :
              Commit("request_delete", user, p, reason,
                     save(project, request_delete_assign(project, user, reason, now),
                          request_delete_fields),
                     stored,
                     AuditRow(user, "delete_request", "Project", p, project.current_stage,
                              None, None))

\* ProjectViewSet.approve_delete: save, log_audit, then project.delete().
\* When log_audit raises, the row saved as delete_approved is left behind.
approve_delete(user, p) ==
  IF p \notin get_queryset(user) THEN Refuse("approve_delete", user, p, "", "NotFound")
  ELSE LET project == projects[p]
           verdict == approve_delete_checks(user, project) IN
       IF verdict # "pass" THEN Refuse("approve_delete", user, p, "", verdict)
       ELSE \E stored \in BOOLEAN :
              /\ now < MaxTime
              /\ projects' = [projects EXCEPT ![p] =
                   IF stored THEN Deleted
                   ELSE save(project, approve_delete_assign(project, user, now),
                             approve_delete_fields)]
              /\ payments' = IF stored THEN delete_cascade(payments, p) ELSE payments
              /\ audit' = log_audit(audit, stored,
                            AuditRow(user, "delete_approve", "Project", p,
                                     project.current_stage, None, None))
              /\ now' = now + 1
              /\ last' = Request("approve_delete", user, p, "", AfterAudit(stored))
              /\ UNCHANGED <<role_permissions, rules, stage_active, pending_changes, reqs, stage_deleted, pay_vars>>

\* ProjectViewSet.move_to_stage
move_to_stage(user, p, stage_code) ==
  IF p \notin get_queryset(user) THEN Refuse("move_to_stage", user, p, stage_code, "NotFound")
  ELSE LET project == projects[p]
           verdict == move_to_stage_checks(user, stage_code) IN
       IF verdict # "pass" THEN Refuse("move_to_stage", user, p, stage_code, verdict)
       ELSE \E stored \in BOOLEAN :
              Commit("move_to_stage", user, p, stage_code,
                     save(project, move_to_stage_assign(project, stage_code),
                          move_to_stage_fields),
                     stored,
                     AuditRow(user, "edit", "Project", p, stage_code,
                              project.current_stage, stage_code))

\* ----------------------------------- edits of the role / rule / stage tables
\* RoleViewSet.get_queryset (all modelled roles are active and company roles)
role_queryset(user) ==
  IF User[user].is_superuser THEN Roles
  ELSE IF is_company_admin(user) THEN Roles
  ELSE IF User[user].role # None /\ User[user].role = "staff_user" THEN Roles
  ELSE {}

\* RoleViewSet update: RoleSerializer writes permission_ids, perform_update logs
role_update(user, role, permission_ids) ==
  IF role \notin role_queryset(user)
  THEN Refuse("role_update", user, None, role, "NotFound")
  ELSE \E stored \in BOOLEAN :
         /\ now < MaxTime
         /\ role_permissions' = [role_permissions EXCEPT ![role] = permission_ids]
         /\ audit' = log_audit(audit, stored,
                       AuditRow(user, "edit", "Role", role, None, None, None))
         /\ now' = now + 1
         /\ last' = Request("role_update", user, None, role, AfterAudit(stored))
         /\ UNCHANGED <<rules, stage_active, projects, payments, pending_changes, reqs, stage_deleted, pay_vars>>

\* WorkflowRuleViewSet.get_queryset
rule_queryset(user) ==
  IF ~User[user].is_staff
  THEN {k \in DOMAIN rules : rules[k].exists /\ rules[k].is_active}
  ELSE {k \in DOMAIN rules : rules[k].exists}

\* WorkflowRuleViewSet update of is_active (WorkflowRuleSerializer)
rule_update(user, stage, action, is_active) ==
  IF <<stage, action>> \notin rule_queryset(user)
  THEN Refuse("rule_update", user, None, stage, "NotFound")
  ELSE /\ now < MaxTime
       /\ rules' = [rules EXCEPT ![<<stage, action>>].is_active = is_active]
       /\ now' = now + 1
       /\ last' = Request("rule_update", user, None, stage, "OK")
       /\ UNCHANGED <<role_permissions, stage_active, projects, payments, audit, pending_changes, reqs, stage_deleted, pay_vars>>

\* WorkflowStageViewSet.get_queryset
stage_queryset(user) ==
  IF ~User[user].is_staff
  THEN {s \in Stages \ stage_deleted : stage_active[s]}
  ELSE Stages \ stage_deleted

\* WorkflowStageViewSet update of is_active (WorkflowStageSerializer)
stage_update(user, stage, is_active) ==
  IF stage \notin stage_queryset(user)
  THEN Refuse("stage_update", user, None, stage, "NotFound")
  ELSE /\ now < MaxTime
       /\ stage_active' = [stage_active EXCEPT ![stage] = is_active]
       /\ now' = now + 1
       /\ last' = Request("stage_update", user, None, stage, "OK")
       /\ UNCHANGED <<role_permissions, rules, projects, payments, audit, pending_changes, reqs, stage_deleted, pay_vars>>

\* AuditLog.stage, Project.current_stage: ForeignKey(on_delete=SET_NULL)
set_null(value, deleted) == IF value = deleted THEN None ELSE value

\* WorkflowStageViewSet destroy (ModelViewSet.destroy): the stage row is deleted;
\* its rules go with it (WorkflowRule.stage CASCADE), projects in the stage and
\* audit rows written in the stage have the reference set to NULL
stage_destroy(user, stage) ==
  IF stage \notin stage_queryset(user)
  THEN Refuse("stage_destroy", user, None, stage, "NotFound")
  ELSE /\ now < MaxTime
       /\ stage_deleted' = stage_deleted \cup {stage}
       /\ rules' = [k \in DOMAIN rules |-> IF k[1] = stage THEN NoRule ELSE rules[k]]
       /\ projects' = [p \in Projects |->
             IF projects[p].exists
             THEN [projects[p] EXCEPT !.current_stage = set_null(@, stage)]
             ELSE projects[p]]
       /\ audit' = [i \in 1..Len(audit) |->
                      [audit[i] EXCEPT !.stage = set_null(@, stage)]]
       /\ now' = now + 1
       /\ last' = Request("stage_destroy", user, None, stage, "OK")
       /\ UNCHANGED <<role_permissions, stage_active, payments, pending_changes, reqs,
                      pay_vars>>

\* ------------------------------------------------------- pending changes
\* PendingChangeViewSet.get_queryset
pending_change_queryset(user) ==
  LET all == {c \in PendingChanges : pending_changes[c].exists} IN
  IF User[user].is_superuser THEN all
  ELSE IF is_company_admin(user) /\ User[user].tenant # None
       THEN {c \in all : pending_changes[c].tenant = User[user].tenant}
  ELSE IF User[user].role # None /\ User[user].role = "staff_user"
       THEN {c \in all : pending_changes[c].requested_by = user}
  ELSE {}

\* PendingChangeViewSet create (ModelViewSet.create with PendingChangeSerializer):
\* every field of the body but id and the timestamps is written as sent
pending_change_create(user, c, body) ==
  /\ ~pending_changes[c].exists
  /\ now < MaxTime
  /\ pending_changes' = [pending_changes EXCEPT ![c] =
        [exists |-> TRUE, requested_by |-> body.requested_by, tenant |-> body.tenant,
         action |-> body.action, model_name |-> body.model_name,
         object_id |-> body.object_id, data |-> body.data,
         status |-> "pending", reviewed_by |-> None, reviewed_at |-> None,
         review_notes |-> "", created_at |-> now]]
  /\ now' = now + 1
  /\ last' = Request("pending_change_create", user, None, c, "OK")
  /\ UNCHANGED <<role_permissions, rules, stage_active, projects, payments, audit, reqs, stage_deleted, pay_vars>>

\* the checks of PendingChangeViewSet.approve, views.py 1035-1056
pending_change_approve_checks(user, pending_change) ==
  IF ~User[user].is_superuser
     /\ ~(is_company_admin(user) \/ (User[user].role # None /\ User[user].role = "Manager"))
  THEN "PermissionDenied"
  ELSE IF ~User[user].is_superuser /\ pending_change.tenant # User[user].tenant
       THEN "PermissionDenied"
  ELSE IF pending_change.status # "pending" THEN "InvalidState"
  ELSE "pass"

\* for key, value in pending_change.data.items(): setattr(instance, key, value)
apply_data(instance, data) ==
  [f \in DOMAIN instance |-> IF f \in DOMAIN data THEN data[f] ELSE instance[f]]

\* the Project row the approval of the change acts on: a new primary key for a
\* create, the row named by object_id otherwise
change_subject(pending_change) ==
  IF pending_change.action = "create"
  THEN IF \E p \in Projects : ~projects[p].exists
       THEN CHOOSE p \in Projects : ~projects[p].exists
       ELSE None
  ELSE pending_change.object_id

\* model_class.objects.get(pk=object_id) finds the row (create needs none)
change_applies(pending_change) ==
  LET p == change_subject(pending_change) IN
  IF pending_change.action = "create" THEN p # None
  ELSE p \in Projects /\ projects[p].exists

\* the projects table after the change is applied, views.py 1060-1102:
\* objects.create(**data), or get + setattr + save(), or get + delete()
apply_change(pending_change) ==
  LET p == change_subject(pending_change) IN
  CASE pending_change.action = "create"
         -> [projects EXCEPT ![p] = apply_data(NewProject(None, None), pending_change.data)]
    [] pending_change.action = "update"
         -> [projects EXCEPT ![p] = apply_data(@, pending_change.data)]
    [] pending_change.action = "delete"
         -> [projects EXCEPT ![p] = Deleted]

\* PendingChangeViewSet.approve: the checks, the change applied to its subject,
\* the pending change marked approved, then log_audit; any exception in between
\* is answered 500 with what was saved kept
pending_change_approve(user, c) ==
  IF c \notin pending_change_queryset(user)
  THEN Refuse("pending_change_approve", user, None, c, "NotFound")
  ELSE LET pending_change == pending_changes[c]
           verdict == pending_change_approve_checks(user, pending_change)
           p == change_subject(pending_change) IN
       IF verdict # "pass" THEN Refuse("pending_change_approve", user, p, c, verdict)
       ELSE IF ~change_applies(pending_change)        \* DoesNotExist, caught
            THEN Refuse("pending_change_approve", user, p, c, "ServerError")
       ELSE \E stored \in BOOLEAN :
              /\ now < MaxTime
              /\ projects' = apply_change(pending_change)
              /\ payments' = IF pending_change.action = "delete"
                             THEN delete_cascade(payments, p)
                             ELSE payments
              /\ pending_changes' = [pending_changes EXCEPT ![c] =
                    [@ EXCEPT !.status = "approved", !.reviewed_by = user,
                              !.reviewed_at = now]]
              /\ audit' = log_audit(audit, stored,
                            AuditRow(user, "approve", pending_change.model_name, p,
                                     None, None, None))
              /\ now' = now + 1
              /\ last' = Request("pending_change_approve", user, p, c, AfterAudit(stored))
              /\ UNCHANGED <<role_permissions, rules, stage_active, reqs, stage_deleted, pay_vars>>

\* ------------------------------------------------------------------ Init
ReqIds == {"r1", "r2"}

Rule(is_active, required_permission, allowed_roles) ==
  [exists |-> TRUE, is_active |-> is_active,
   required_permission |-> required_permission, allowed_roles |-> allowed_roles]

\* the rule table the runs start from: stage s1 fully ruled (delete_approve
\* switched off), stage s2 with a submit rule only
InitRules ==
  [k \in Stages \X GatedActions |->
     CASE k = <<"s1", "submit">>         -> Rule(TRUE, "can_edit", {})
       [] k = <<"s1", "approve">>        -> Rule(TRUE, "can_sign", {"company_super_admin"})
       [] k = <<"s1", "reject">>         -> Rule(TRUE, "can_sign", {"company_super_admin"})
       [] k = <<"s1", "delete_request">> -> Rule(TRUE, "can_edit", {})
       [] k = <<"s1", "delete_approve">> -> Rule(FALSE, "can_sign", {"company_super_admin"})
       [] k = <<"s2", "submit">>         -> Rule(TRUE, "can_edit", {})
       [] OTHER                          -> NoRule]

InitTables ==
  /\ role_permissions = [r \in Roles |-> IF r = "Manager" THEN {"can_edit"} ELSE {}]
  /\ rules = InitRules
  /\ stage_active = [s \in Stages |-> TRUE]
  /\ payments = {PaymentRow(1, "p1", 10, 0)}
  /\ stage_deleted = {}
  /\ contracts = [p \in Projects |-> Deleted]
  /\ today = 0
  /\ in_memory = NoInstance
  /\ fault = "none"
  /\ audit = <<>>
  /\ now = 0
  /\ pending_changes = [c \in PendingChanges |-> Deleted]
  /\ last = Request("none", None, None, "", "none")
  /\ reqs = [r \in ReqIds |-> NoReq]

\* a project as perform_create leaves it: draft, with or without a stage
Init ==
  /\ InitTables
  /\ \E stage \in {None} \cup Stages :
       projects = [p \in Projects |->
                     IF p = "p1" THEN NewProject("t1", stage) ELSE Deleted]

\* A refused request writes nothing, so a run is continued from the response of
\* a request that committed (or from the start), never from a refusal: the
\* refusal is explored as the last step of its run.
Ready == last.outcome \in {"none", "OK", "ServerError"}

Next ==
  \/ \E user \in Users, p \in ProjectInputs : Ready /\ submit(user, p)
  \/ \E user \in Users, p \in ProjectInputs, notes \in NotesInputs :
       Ready /\ approve(user, p, notes)
  \/ \E user \in Users, p \in ProjectInputs, notes \in NotesInputs :
       Ready /\ reject(user, p, notes)
  \/ \E user \in Users, p \in ProjectInputs, reason \in NotesInputs :
       Ready /\ request_delete(user, p, reason)
  \/ \E user \in Users, p \in ProjectInputs : Ready /\ approve_delete(user, p)
  \/ \E user \in Users, p \in ProjectInputs, stage_code \in StageCodeInputs :
       Ready /\ move_to_stage(user, p, stage_code)
  \/ \E user \in Users, role \in RoleInputs, permission_ids \in PermissionSetInputs :
       Ready /\ role_update(user, role, permission_ids)
  \/ \E user \in Users, k \in RuleInputs, is_active \in BOOLEAN :
       Ready /\ rule_update(user, k[1], k[2], is_active)
  \/ \E user \in Users, stage \in StageInputs, is_active \in BOOLEAN :
       Ready /\ stage_update(user, stage, is_active)
  \/ \E user \in Users, stage \in StageInputs : Ready /\ stage_destroy(user, stage)
  \/ \E user \in Users, c \in PendingChanges, body \in PendingChangeInputs :
       Ready /\ pending_change_create(user, c, body)
  \/ \E user \in Users, c \in PendingChanges :
       Ready /\ pending_change_approve(user, c)

Spec == Init /\ [][Next]_vars

\* ------------------------------------------- two requests in flight (SpecConc)
\* The handlers again, one database statement per step. No handler opens a
\* transaction or locks the row (no ATOMIC_REQUESTS, no transaction.atomic, no
\* select_for_update), so statements of two requests interleave freely.

WorkflowOps ==
  {"submit", "approve", "reject", "request_delete", "approve_delete", "move_to_stage"}

\* the checks of handler op on the instance get_object returned
Checks(op, user, project, arg) ==
  CASE op = "submit"         -> submit_checks(user, project)
    [] op = "approve"        -> approve_checks(user, project)
    [] op = "reject"         -> reject_checks(user, project, arg)
    [] op = "request_delete" -> request_delete_checks(user, project, arg)
    [] op = "approve_delete" -> approve_delete_checks(user, project)
    [] op = "move_to_stage"  -> move_to_stage_checks(user, arg)

\* the in-memory instance after the handler's assignments
Assign(op, user, project, arg, t) ==
  CASE op = "submit"         -> submit_assign(project)
    [] op = "approve"        -> approve_assign(project, user, arg, t)
    [] op = "reject"         -> reject_assign(project, user, arg, t)
    [] op = "request_delete" -> request_delete_assign(project, user, arg, t)
    [] op = "approve_delete" -> approve_delete_assign(project, user, t)
    [] op = "move_to_stage"  -> move_to_stage_assign(project, arg)

\* the update_fields of the handler's save
Fields(op) ==
  CASE op = "submit"         -> submit_fields
    [] op = "approve"        -> approve_fields
    [] op = "reject"         -> reject_fields
    [] op = "request_delete" -> request_delete_fields
    [] op = "approve_delete" -> approve_delete_fields
    [] op = "move_to_stage"  -> move_to_stage_fields

\* the row the handler hands to log_audit (built from the in-memory instance)
Entry(op, user, p, loaded, instance) ==
  CASE op = "submit"         -> AuditRow(user, "submit", "Project", p, instance.current_stage, None, None)
    [] op = "approve"        -> AuditRow(user, "approve", "Project", p, instance.current_stage, "pending", "approved")
    [] op = "reject"         -> AuditRow(user, "reject", "Project", p, instance.current_stage, "pending", "rejected")
    [] op = "request_delete" -> AuditRow(user, "delete_request", "Project", p, instance.current_stage, None, None)
    [] op = "approve_delete" -> AuditRow(user, "delete_approve", "Project", p, instance.current_stage, None, None)
    [] op = "move_to_stage"  -> AuditRow(user, "edit", "Project", p, instance.current_stage,
                                         loaded.current_stage, instance.current_stage)

ArgInputs(op) ==
  CASE op \in {"submit", "approve_delete"} -> {""}
    [] op = "move_to_stage" -> StageCodeInputs
    [] OTHER -> NotesInputs

Done(r, outcome) ==
  /\ last' = Request(reqs[r].op, reqs[r].user, reqs[r].project, reqs[r].arg, outcome)
  /\ reqs' = [reqs EXCEPT ![r].pc = "done"]

\* get_object and the checks: the request reads the row and decides
begin_request(r, op, user, p, arg) ==
  /\ reqs[r].pc = "idle"
  /\ UNCHANGED <<role_permissions, rules, stage_active, projects, payments, audit, now,
                 pending_changes, stage_deleted, pay_vars>>
  /\ LET verdict == IF p \notin get_queryset(user) THEN "NotFound"
                    ELSE Checks(op, user, projects[p], arg) IN
     IF verdict # "pass"
     THEN /\ last' = Request(op, user, p, arg, verdict)
          /\ reqs' = [reqs EXCEPT ![r] =
                        [pc |-> "done", op |-> op, user |-> user, project |-> p, arg |-> arg]]
     ELSE /\ last' = last
          /\ reqs' = [reqs EXCEPT ![r] =
                        [pc |-> "save", op |-> op, user |-> user, project |-> p, arg |-> arg,
                         loaded |-> projects[p],
                         instance |-> Assign(op, user, projects[p], arg, now)]]

\* project.save(update_fields=[...]): an UPDATE by primary key of the named
\* columns; it raises DatabaseError when the row is gone
save_step(r) ==
  /\ reqs[r].pc = "save"
  /\ UNCHANGED <<role_permissions, rules, stage_active, payments, audit, pending_changes, stage_deleted, pay_vars>>
  /\ LET p == reqs[r].project IN
     IF ~projects[p].exists
     THEN /\ Done(r, "ServerError")
          /\ UNCHANGED <<projects, now>>
     ELSE /\ projects' = [projects EXCEPT ![p] = save(@, reqs[r].instance, Fields(reqs[r].op))]
          /\ now' = now + 1
          /\ reqs' = [reqs EXCEPT ![r].pc = "log"]
          /\ last' = last

\* log_audit(...), then the Response, or for approve_delete the delete
log_step(r) ==
  /\ reqs[r].pc = "log"
  /\ UNCHANGED <<role_permissions, rules, stage_active, projects, payments, now,
                 pending_changes, stage_deleted, pay_vars>>
  /\ \E stored \in BOOLEAN :
       /\ audit' = log_audit(audit, stored,
                     Entry(reqs[r].op, reqs[r].user, reqs[r].project,
                           reqs[r].loaded, reqs[r].instance))
       /\ IF ~stored THEN Done(r, "ServerError")
          ELSE IF reqs[r].op = "approve_delete"
               THEN reqs' = [reqs EXCEPT ![r].pc = "delete"] /\ last' = last
               ELSE Done(r, "OK")

\* approve_delete: project.delete() by primary key, cascading to the payments
delete_step(r) ==
  /\ reqs[r].pc = "delete"
  /\ projects' = [projects EXCEPT ![reqs[r].project] = Deleted]
  /\ payments' = delete_cascade(payments, reqs[r].project)
  /\ Done(r, "OK")
  /\ UNCHANGED <<role_permissions, rules, stage_active, audit, now, pending_changes, stage_deleted, pay_vars>>

\* the project after request_delete("note") by mgr on a draft project in s1,
\* with the delete_approve rule of s1 switched on: two requests start from here
InitConc ==
  /\ role_permissions = [r \in Roles |-> IF r = "Manager" THEN {"can_edit"} ELSE {}]
  /\ rules = [InitRules EXCEPT ![<<"s1", "delete_approve">>].is_active = TRUE]
  /\ stage_active = [s \in Stages |-> TRUE]
  /\ projects = [p \in Projects |->
                   IF p = "p1"
                   THEN request_delete_assign(NewProject("t1", "s1"), "mgr", "note", 1)
                   ELSE Deleted]
  /\ payments = {PaymentRow(1, "p1", 10, 0)}
  /\ stage_deleted = {}
  /\ contracts = [p \in Projects |-> Deleted]
  /\ today = 0
  /\ in_memory = NoInstance
  /\ fault = "none"
  /\ audit = <<AuditRow("mgr", "delete_request", "Project", "p1", "s1", None, None)>>
  /\ now = 2
  /\ pending_changes = [c \in PendingChanges |-> Deleted]
  /\ last = Request("request_delete", "mgr", "p1", "note", "OK")
  /\ reqs = [r \in ReqIds |-> NoReq]

NextConc ==
  \/ \E r \in ReqIds, op \in WorkflowOps, user \in Users, p \in ProjectInputs :
       \E arg \in ArgInputs(op) : begin_request(r, op, user, p, arg)
  \/ \E r \in ReqIds : save_step(r)
  \/ \E r \in ReqIds : log_step(r)
  \/ \E r \in ReqIds : delete_step(r)

SpecConc == InitConc /\ [][NextConc]_vars

\* ================================================================ claims
\* In the step formulas below the unprimed variables are the tables before
\* the request, last' is the request just answered.

\* the WorkflowRule action a rule-gated endpoint looks up
ActionOf(op) ==
  CASE op = "submit"         -> "submit"
    [] op = "approve"        -> "approve"
    [] op = "reject"         -> "reject"
    [] op = "request_delete" -> "delete_request"
    [] op = "approve_delete" -> "delete_approve"

GatedOps == {"submit", "approve", "reject", "request_delete", "approve_delete"}

\* the request addresses a project its actor's queryset holds
Resolves(r) == r.op \in WorkflowOps /\ r.project \in get_queryset(r.user)

\* reject / request_delete carry their mandatory text
HasText(r) == r.op \in {"reject", "request_delete"} => r.arg # ""

\* the project is in the state the action needs
StateValid(r) ==
  /\ projects[r.project].current_stage # None
  /\ r.op = "approve_delete" => projects[r.project].approval_status = "delete_requested"

\* the claim's wording of "permitted", from the role and rule tables as they are
Permitted(user, stage, action) ==
  \/ User[user].is_superuser
  \/ /\ rules[<<stage, action>>].exists
     /\ rules[<<stage, action>>].is_active
     /\ User[user].role # None
     /\ \/ rules[<<stage, action>>].required_permission \in role_permissions[User[user].role]
        \/ User[user].role \in rules[<<stage, action>>].allowed_roles

Untouched == projects' = projects /\ audit' = audit /\ payments' = payments

C1_Step ==
  LET r == last' IN
  (r.op \in GatedOps /\ Resolves(r) /\ HasText(r) /\ StateValid(r)) =>
     IF Permitted(r.user, projects[r.project].current_stage, ActionOf(r.op))
     THEN r.outcome \in {"OK", "ServerError"} /\ now' = now + 1
     ELSE r.outcome = "PermissionDenied" /\ Untouched

\* C1: a rule-gated action on a project in stage S goes through iff the actor
\* is a superuser or an active rule for (S, action) names a capability the
\* actor's role holds or lists the role, by the tables at call time; otherwise
\* the answer is PermissionDenied and project and audit log stay as they were.
C1_PermissionIff == [][C1_Step]_vars

\* mgr is refused submit right after the Manager role lost its permissions
C1_Witness ==
  /\ last.op = "submit" /\ last.user = "mgr" /\ last.outcome = "PermissionDenied"
  /\ role_permissions["Manager"] = {}
  /\ projects["p1"].exists /\ projects["p1"].current_stage = "s1"

C2_Step ==
  LET r == last' IN
  (r.op = "approve_delete" /\ Resolves(r)
     /\ projects[r.project].approval_status # "delete_requested") =>
     r.outcome = "InvalidState" /\ Untouched

\* C2: approve_delete on a project that is not delete_requested is answered
\* InvalidState for every actor, superuser included; nothing is written or deleted.
C2_NotRequested == [][C2_Step]_vars

\* the superuser is refused on a project in its stage that nobody asked to delete
C2_Witness ==
  /\ last.op = "approve_delete" /\ last.user = "root" /\ last.outcome = "InvalidState"
  /\ projects["p1"].exists /\ projects["p1"].current_stage # None
  /\ projects["p1"].approval_status = "approved"

\* an actor the permission check would refuse (or could not even look up)
LacksPermission(r) ==
  /\ ~User[r.user].is_superuser
  /\ projects[r.project].current_stage # None =>
       ~Permitted(r.user, projects[r.project].current_stage, ActionOf(r.op))

C3_OriginalStep ==
  LET r == last' IN
  (r.op \in GatedOps /\ Resolves(r) /\ ~StateValid(r) /\ LacksPermission(r)) =>
     r.outcome = "InvalidState"

\* C3 as stated: an actor without permission acting on a project in the wrong
\* state always receives InvalidState.
C3_Original == [][C3_OriginalStep]_vars

C3_Step ==
  LET r == last' IN
  (r.op \in GatedOps /\ Resolves(r) /\ ~StateValid(r) /\ LacksPermission(r)) =>
     /\ r.outcome = (IF HasText(r) THEN "InvalidState" ELSE "ValidationError")
     /\ Untouched

\* C3 amended: such an actor receives InvalidState, or ValidationError when
\* reject / request_delete came without notes / reason; never PermissionDenied.
C3_StateBeforePermission == [][C3_Step]_vars

\* guest, who holds nothing, is told InvalidState on a project without stage
C3_Witness ==
  /\ last.op = "approve" /\ last.user = "guest" /\ last.outcome = "InvalidState"
  /\ projects["p1"].exists /\ projects["p1"].current_stage = None

C4_Step ==
  LET r == last' IN
  (r.op \in {"reject", "request_delete"} /\ Resolves(r) /\ r.arg = "") =>
     r.outcome = "ValidationError" /\ Untouched

\* C4: reject without notes and request_delete without reason are answered
\* ValidationError before stage and permission are looked at, also for an actor
\* without the permission; nothing is written.
C4_TextFirst == [][C4_Step]_vars

\* guest, who may not reject, is told ValidationError for the empty notes
C4_Witness ==
  /\ last.op = "reject" /\ last.user = "guest" /\ last.arg = ""
  /\ last.outcome = "ValidationError"
  /\ projects["p1"].exists /\ projects["p1"].current_stage = "s1"

C5_StepOriginal ==
  LET r == last' IN
  (r.op \in {"submit", "approve", "reject", "request_delete"} /\ Resolves(r)
     /\ projects'[r.project].exists
     /\ projects'[r.project].approval_status # projects[r.project].approval_status) =>
     LET from == projects[r.project].approval_status
         to   == projects'[r.project].approval_status IN
     /\ to \in {"pending", "approved", "rejected", "delete_requested"}
     /\ to \in {"approved", "rejected"} => from = "pending"
     /\ to = "pending" => from \in {"draft", "approved", "rejected"}
     /\ to = "delete_requested" => from \in {"pending", "approved", "draft"}

\* C5 as stated: submit, approve, reject and request_delete move approval_status
\* along the edges of the state graph only (approved and rejected from pending;
\* pending from draft, approved, rejected; delete_requested from pending,
\* approved, draft).
C5_Original == [][C5_StepOriginal]_vars

C6_Step ==
  LET r == last'
      old == projects[r.project] IN
  (r.op \in {"submit", "approve", "reject", "request_delete"} /\ r.outcome = "OK") =>
     /\ payments' = payments
     /\ projects'[r.project] =
          CASE r.op = "submit" ->
                 [old EXCEPT !.approval_status = "pending"]
            [] r.op = "approve" ->
                 [old EXCEPT !.approval_status = "approved", !.last_approved_by = r.user,
                             !.last_approved_at = now, !.approval_notes = r.arg]
            [] r.op = "reject" ->
                 [old EXCEPT !.approval_status = "rejected", !.last_approved_by = r.user,
                             !.last_approved_at = now, !.approval_notes = r.arg]
            [] r.op = "request_delete" ->
                 [old EXCEPT !.approval_status = "delete_requested",
                             !.delete_requested_by = r.user,
                             !.delete_requested_at = now, !.delete_reason = r.arg]

\* C6: a successful submit sets approval_status to pending; approve sets approved,
\* last_approved_by = actor, last_approved_at = now, approval_notes = notes; reject
\* the same with rejected; request_delete sets delete_requested with requester,
\* time and reason; current_stage and every other field stay as they were.
C6_Effects == [][C6_Step]_vars

\* a request_delete that went through on a project that had been approved before
C6_Witness ==
  /\ last.op = "request_delete" /\ last.outcome = "OK"
  /\ projects["p1"].exists
  /\ projects["p1"].approval_status = "delete_requested"
  /\ projects["p1"].delete_requested_by = last.user
  /\ projects["p1"].delete_reason = "note"
  /\ projects["p1"].last_approved_by # None

IsFinal(row) == row.exists /\ row.approval_status = "final_approved"

C7_Step ==
  \A p \in Projects :
    (IsFinal(projects'[p]) /\ ~IsFinal(projects[p])) =>
       last'.op \notin WorkflowOps /\ can_final_approve(last'.user)

\* C7: no submit, approve, reject, request_delete, approve_delete or move_to_stage
\* makes a project final_approved; a step that does is an action of another kind
\* by a superuser or company admin.
C7_NoFinalApprove == [][C7_Step]_vars

\* the change mgr filed was applied by admin, the company admin: only then did
\* the project become final_approved
C7_Witness ==
  /\ last.op = "pending_change_approve" /\ last.user = "admin"
  /\ last.outcome = "OK" /\ is_company_admin(last.user)
  /\ pending_changes["c1"].exists /\ pending_changes["c1"].requested_by = "mgr"
  /\ ~can_final_approve(pending_changes["c1"].requested_by)
  /\ projects["p1"].exists /\ projects["p1"].approval_status = "final_approved"

\* C8 as stated: after an approve_delete that changed the project, no project
\* with approval_status delete_approved exists (the project was deleted with it).
C8_Original ==
  \A p \in Projects : projects[p].exists => projects[p].approval_status # "delete_approved"

C9_StepOriginal ==
  \A r \in ReqIds :
    /\ (reqs[r].pc = "save" /\ reqs'[r].pc = "log") =>
          projects[reqs[r].project] = reqs[r].loaded
    /\ (reqs[r].pc = "delete" /\ reqs'[r].pc = "done") =>
          projects[reqs[r].project] =
            save(reqs[r].loaded, reqs[r].instance, Fields(reqs[r].op))

\* C9 as stated: two transitions in flight on one project behave as if run one
\* after the other: a transition writes over the very row its checks were made
\* on, and approve_delete deletes the row as it saved it (delete_approved), not
\* a row another transition has written since.
C9_Original == [][C9_StepOriginal]_vars

ActiveStage(code) == code \in Stages \ stage_deleted /\ stage_active[code]

C10_Step ==
  LET r == last'
      old == projects[r.project] IN
  (r.op = "move_to_stage" /\ Resolves(r) /\ ActiveStage(r.arg)) =>
     IF User[r.user].is_staff
     THEN /\ r.outcome \in {"OK", "ServerError"}
          /\ projects'[r.project] =
               [old EXCEPT !.current_stage = r.arg, !.approval_status = "draft"]
          /\ r.outcome = "OK" =>
               /\ Len(audit') = Len(audit) + 1
               /\ SubSeq(audit', 1, Len(audit)) = audit
               /\ audit'[Len(audit')].user = r.user
               /\ audit'[Len(audit')].object_id = r.project
               /\ audit'[Len(audit')].model_name = "Project"
          /\ r.outcome = "ServerError" => audit' = audit
     ELSE r.outcome = "PermissionDenied" /\ Untouched

NoSuchStage(r) == r.op = "move_to_stage" /\ Resolves(r) /\ r.arg # "" /\ ~ActiveStage(r.arg)

C11_StepOriginal ==
  NoSuchStage(last') => last'.outcome = "NotFound" /\ Untouched

\* C11 as stated: move_to_stage with an unknown or inactive stage code is answered
\* NotFound, whoever calls, and project and audit log stay as they were.
C11_Original == [][C11_StepOriginal]_vars

C11_Step ==
  NoSuchStage(last') =>
     /\ last'.outcome = (IF User[last'.user].is_staff THEN "NotFound" ELSE "PermissionDenied")
     /\ Untouched

\* C11 amended: by a staff actor the call is answered NotFound, by a non-staff
\* actor PermissionDenied (is_staff is tested before the stage is looked up);
\* in both cases project and audit log stay as they were.
C11_UnknownStage == [][C11_Step]_vars

\* admin is told NotFound for s2 right after s2 was switched off
C11_Witness ==
  /\ last.op = "move_to_stage" /\ last.user = "admin" /\ last.arg = "s2"
  /\ last.outcome = "NotFound"
  /\ "s2" \notin stage_deleted /\ ~stage_active["s2"]
  /\ projects["p1"].exists /\ projects["p1"].current_stage = "s1"

\* the AuditLog action a workflow handler passes to log_audit
AuditActionOf(op) == IF op = "move_to_stage" THEN "edit" ELSE ActionOf(op)

C12_StepOriginal ==
  /\ Len(audit') >= Len(audit)
  /\ SubSeq(audit', 1, Len(audit)) = audit
  /\ (last'.op \in WorkflowOps /\ last'.outcome = "OK") =>
        /\ Len(audit') = Len(audit) + 1
        /\ audit'[Len(audit')].user = last'.user
        /\ audit'[Len(audit')].action = AuditActionOf(last'.op)
        /\ audit'[Len(audit')].object_id = last'.project

\* C12 as stated: every successful workflow transition appends exactly one audit
\* row naming actor, action and project, and no operation ever modifies or
\* removes a row already written (rows stay in the order they were appended).
C12_Original == [][C12_StepOriginal]_vars

\* the handler passed its checks and saved the project row
Saved(r) == r.op \in WorkflowOps /\ Resolves(r) /\ now' = now + 1

C13_StepOriginal ==
  LET r == last' IN
  Saved(r) =>
     /\ r.outcome = "OK"
     /\ r.op = "approve_delete" => ~projects'[r.project].exists

\* C13 as stated: a transition that saved its state change is answered as a
\* success whether or not the audit row could be written, and approve_delete
\* goes on to delete the project.
C13_Original == [][C13_StepOriginal]_vars

C14_StepOriginal ==
  LET r == last' IN
  (r.op \in WorkflowOps /\ Resolves(r)
     /\ r.outcome \in {"PermissionDenied", "InvalidState", "ValidationError"}) =>
     /\ Len(audit') = Len(audit) + 1
     /\ audit'[Len(audit')].user = r.user
     /\ audit'[Len(audit')].object_id = r.project

\* C14 as stated: a transition refused with PermissionDenied, InvalidState or
\* ValidationError appends an audit row as well.
C14_Original == [][C14_StepOriginal]_vars

C15_StepOriginal ==
  LET r == last' IN
  (r.op \in {"approve", "reject"} /\ r.outcome = "OK") =>
     /\ audit'[Len(audit')].changes.before = projects[r.project].approval_status
     /\ audit'[Len(audit')].changes.after = projects'[r.project].approval_status

\* C15 as stated: the audit row of a successful approve or reject has as 'before'
\* the approval_status the project had before the call and as 'after' the status
\* the call set.
C15_Original == [][C15_StepOriginal]_vars

\* ============================================ payment-derived status (SpecPay)
\* Project.status is recomputed from the project's payments and its contract
\* by Project.calculate_status_from_payments; the post_save / post_delete
\* signals of Payment call it on a freshly loaded project.

\* Project.status choices the derivation returns
StatusLabels ==
  {"not_started", "execution_started", "under_execution", "temporarily_suspended",
   "handover_stage", "pending_financial_closure", "completed"}

\* bodies of POST / PUT /payments/ that are explored (amounts in thousands, dates
\* as day numbers)
PaymentInputs ==
  {[project |-> "p1", amount |-> a, date |-> 200] : a \in {1, 10, 20, 62, 66, 70}}
  \cup {[project |-> "p1", amount |-> a, date |-> 20] : a \in {10, 20, 70}}
  \cup {[project |-> "p2", amount |-> 10, date |-> 200]}

\* bodies of PUT /payments/<id>/ that are explored: the payment is moved to the
\* other project, or its amount and date are rewritten
UpdateInputs ==
  {[project |-> "p2", amount |-> 10, date |-> 200],
   [project |-> "p1", amount |-> 20, date |-> 20],
   [project |-> "p1", amount |-> 70, date |-> 200]}

\* projects a caller loads and recomputes by hand
LoadInputs == {"p1"}

\* a Contract row; value_set is FALSE when total_project_value is NULL
ContractRow(value_set, value) ==
  [exists |-> TRUE, value_set |-> value_set, total_project_value |-> value]

\* Contract rows that are explored: none, total_project_value NULL, 0, 100
ContractInputs ==
  {Deleted, ContractRow(FALSE, 0), ContractRow(TRUE, 0), ContractRow(TRUE, 100)}

\* the day the requests are made on
TodayInputs == {200, 220}

PayUsers == {"admin", "guest"}

\* the requests of the user who may not manage payments are explored for one
\* body and one payment only: the refusal does not depend on them
Sends(user, id, body) ==
  user = "guest" => (id = 1 /\ body = [project |-> "p1", amount |-> 10, date |-> 200])

\* self.payments.all(): the Payment rows of one project
payments_of(rows, p) == {x \in rows : x.project = p}

\* sum(Decimal(str(p.amount)) for p in payments)
RECURSIVE sum_amounts(_)
sum_amounts(rows) ==
  IF rows = {} THEN 0
  ELSE LET x == CHOOSE y \in rows : TRUE IN x.amount + sum_amounts(rows \ {x})

\* payments.order_by('date', 'created_at').last()
last_payment(rows) ==
  CHOOSE x \in rows :
    \A y \in rows : y.date < x.date \/ (y.date = x.date /\ y.created_at <= x.created_at)

\* variant: the percentage is taken without looking at the sign of the value
completion_at_least_unguarded(total_paid, total_contract_value, k) ==
  total_paid * 100 >= k * total_contract_value

\* completion_percentage >= k, with completion_percentage =
\* float(total_paid / total_contract_value * 100) when the value is positive, else 0
completion_at_least(total_paid, total_contract_value, k) ==
  IF total_contract_value > 0
  THEN total_paid * 100 >= k * total_contract_value
  ELSE 0 >= k

\* remaining_percentage < k, with remaining = total_contract_value - total_paid
remaining_below(total_paid, total_contract_value, k) ==
  (total_contract_value - total_paid) * 100 < k * total_contract_value

\* variant: the 180 days rule is looked at before the percentages
status_rules_recency_first(ledger, total_contract_value, day) ==
  LET payments_count == Cardinality(ledger)
      total_paid == sum_amounts(ledger) IN
  IF payments_count = 0 THEN "not_started"
  ELSE IF last_payment(ledger).date < day - 180 THEN "temporarily_suspended"
  ELSE IF completion_at_least(total_paid, total_contract_value, 100) THEN "completed"
  ELSE IF completion_at_least(total_paid, total_contract_value, 91) THEN "handover_stage"
  ELSE IF payments_count = 1 THEN "execution_started"
  ELSE "under_execution"

\* calculate_status_from_payments, models.py 215-276: the rules in source order
status_rules(ledger, total_contract_value, day) ==
  LET payments_count == Cardinality(ledger)
      total_paid == sum_amounts(ledger) IN
  IF payments_count = 0 THEN "not_started"
  ELSE IF completion_at_least(total_paid, total_contract_value, 100) THEN "completed"
  ELSE IF completion_at_least(total_paid, total_contract_value, 91) THEN "handover_stage"
  ELSE IF /\ total_contract_value > 0
          /\ remaining_below(total_paid, total_contract_value, 5)
          /\ ~completion_at_least(total_paid, total_contract_value, 91)
       THEN "pending_financial_closure"
  ELSE IF /\ last_payment(ledger).date < day - 180
          /\ ~completion_at_least(total_paid, total_contract_value, 91)
       THEN "temporarily_suspended"
  ELSE IF payments_count = 1 THEN "execution_started"
  ELSE IF payments_count > 1 THEN "under_execution"
  ELSE "not_started"

\* a Project object as Project.objects.get(pk=...) returns it
fresh(p) == [loaded |-> TRUE, pk |-> p, status |-> projects[p].status, contract_cached |-> FALSE]

\* calculate_status_from_payments, models.py 199-214: total_contract_value starts
\* at 0 and is read from the contract only when the contract is fetched; an
\* object that has _contract_cache set skips the read
total_contract_value(obj) ==
  IF fault = "contract" THEN 0
  ELSE IF obj.contract_cached THEN 0
  ELSE IF contracts[obj.pk].exists /\ contracts[obj.pk].value_set
       THEN contracts[obj.pk].total_project_value
  ELSE 0

\* the steps of a recomputation that are made to raise: reading the contract,
\* counting the payments, fetching the payment rows, writing the status
FaultInputs == {"none", "contract", "ledger_count", "ledger_rows", "write"}

\* what stands for an exception that leaves calculate_status_from_payments
Raised == "raised"

\* Project.calculate_status_from_payments on object obj, with the Payment table
\* rows. An error while reading the contract is swallowed and leaves the value
\* at 0 (211-214); an error in payments.count() returns 'not_started' (218-222);
\* payments.last() and the sum (233-234) are outside any try and raise.
calculate_status_from_payments(obj, rows) ==
  IF fault = "ledger_count" THEN "not_started"
  ELSE IF fault = "ledger_rows" /\ payments_of(rows, obj.pk) # {} THEN Raised
  ELSE status_rules(payments_of(rows, obj.pk), total_contract_value(obj), today)

\* the projects table after update_status_from_payments on a fresh object of
\* project p: the row is written only when the label differs
update_status_from_payments(table, rows, p) ==
  LET new_status == calculate_status_from_payments(fresh(p), rows) IN
  IF new_status = Raised THEN table
  ELSE IF table[p].status # new_status /\ fault # "write"
  THEN [table EXCEPT ![p].status = new_status]
  ELSE table

\* signals.update_project_status_on_payment_save / _delete: the project the
\* saved or deleted payment points to is reloaded and recomputed
payment_signal(rows, project_id) ==
  IF project_id # None /\ projects[project_id].exists
  THEN update_status_from_payments(projects, rows, project_id)
  ELSE projects

\* authentication.utils.can_manage_payments
can_manage_payments(user) ==
  IF User[user].is_superuser THEN TRUE
  ELSE IF is_company_admin(user) THEN TRUE
  ELSE IF User[user].role # None /\ User[user].role = "Manager" THEN TRUE
  ELSE FALSE

PayRefuse(op, user, p, arg, outcome) ==
  /\ last' = Request(op, user, p, arg, outcome)
  /\ UNCHANGED <<role_permissions, rules, stage_active, projects, payments, audit, now,
                 pending_changes, reqs, stage_deleted, pay_vars>>

PayFrame ==
  UNCHANGED <<role_permissions, rules, stage_active, audit, pending_changes, reqs,
              stage_deleted, pay_vars>>

\* PaymentViewSet.perform_create: serializer.save(), then the post_save signal
payment_create(user, id, body) ==
  /\ \A x \in payments : x.id < id
  /\ \A smaller \in 1..(id - 1) : \E x \in payments : x.id >= smaller
  /\ IF ~can_manage_payments(user)
     THEN PayRefuse("payment_create", user, body.project, id, "ValidationError")
     ELSE LET rows == payments \cup {PaymentRow(id, body.project, body.amount, body.date)} IN
          /\ now < MaxOps
          /\ payments' = rows
          /\ projects' = payment_signal(rows, body.project)
          /\ now' = now + 1
          /\ last' = Request("payment_create", user, body.project, id, "OK")
          /\ PayFrame

\* PaymentViewSet.perform_update: serializer.save() writes project, amount and
\* date as sent, then the post_save signal
payment_update(user, id, body) ==
  /\ id \in {x.id : x \in payments}
  /\ IF ~can_manage_payments(user)
     THEN PayRefuse("payment_update", user, body.project, id, "ValidationError")
     ELSE LET rows == {IF x.id = id
                       THEN [x EXCEPT !.project = body.project, !.amount = body.amount,
                                      !.date = body.date]
                       ELSE x : x \in payments} IN
          /\ now < MaxOps
          /\ payments' = rows
          /\ projects' = payment_signal(rows, body.project)
          /\ now' = now + 1
          /\ last' = Request("payment_update", user, body.project, id, "OK")
          /\ PayFrame

\* PaymentViewSet.perform_destroy: instance.delete(), then the post_delete signal
payment_destroy(user, id) ==
  /\ id \in {x.id : x \in payments}
  /\ LET instance_ == CHOOSE x \in payments : x.id = id IN
     IF ~can_manage_payments(user)
     THEN PayRefuse("payment_destroy", user, instance_.project, id, "ValidationError")
     ELSE LET rows == payments \ {instance_} IN
          /\ now < MaxOps
          /\ payments' = rows
          /\ projects' = payment_signal(rows, instance_.project)
          /\ now' = now + 1
          /\ last' = Request("payment_destroy", user, instance_.project, id, "OK")
          /\ PayFrame

\* a caller loads a project: Project.objects.get(pk=p)
load_project(p) ==
  /\ projects[p].exists
  /\ in_memory' = fresh(p)
  /\ last' = Request("load_project", None, p, "", "OK")
  /\ UNCHANGED <<role_permissions, rules, stage_active, projects, payments, audit, now,
                 pending_changes, reqs, stage_deleted, contracts, today, fault>>

\* Project.update_status_from_payments on the object the caller holds: the label
\* is computed, compared with the object's status, written with
\* Project.objects.filter(pk=...).update(status=...) when it differs; the call
\* leaves _contract_cache set when the project has a contract. The value
\* returned is kept in last.arg.
held_update_status_from_payments ==
  /\ in_memory.loaded
  /\ now < MaxOps
  /\ LET new_status == calculate_status_from_payments(in_memory, payments)
         changed == /\ new_status # Raised
                    /\ in_memory.status # new_status
                    /\ fault # "write" IN
     /\ projects' = IF changed /\ projects[in_memory.pk].exists
                    THEN [projects EXCEPT ![in_memory.pk].status = new_status]
                    ELSE projects
     /\ in_memory' = [in_memory EXCEPT
                        !.status = IF changed THEN new_status ELSE @,
                        !.contract_cached =
                          @ \/ (contracts[in_memory.pk].exists /\ fault # "contract")]
     /\ last' = Request("update_status_from_payments", None, in_memory.pk,
                        IF changed THEN "True" ELSE "False", "OK")
  /\ now' = now + 1
  /\ UNCHANGED <<role_permissions, rules, stage_active, payments, audit,
                 pending_changes, reqs, stage_deleted, contracts, today, fault>>

\* two projects of tenant t1 without payments; p1 with or without a contract
InitPay ==
  /\ role_permissions = [r \in Roles |-> IF r = "Manager" THEN {"can_edit"} ELSE {}]
  /\ rules = InitRules
  /\ stage_active = [s \in Stages |-> TRUE]
  /\ stage_deleted = {}
  /\ projects = [p \in Projects |-> NewProject("t1", "s1")]
  /\ payments = {}
  /\ audit = <<>>
  /\ now = 0
  /\ pending_changes = [c \in PendingChanges |-> Deleted]
  /\ last = Request("none", None, None, "", "none")
  /\ reqs = [r \in ReqIds |-> NoReq]
  /\ \E contract \in ContractInputs :
       contracts = [p \in Projects |-> IF p = "p1" THEN contract ELSE Deleted]
  /\ today \in TodayInputs
  /\ in_memory = NoInstance
  /\ fault = "none"

NextPay ==
  \/ \E user \in PayUsers, id \in 1..MaxPayments, body \in PaymentInputs :
       Ready /\ Sends(user, id, body) /\ payment_create(user, id, body)
  \/ \E user \in PayUsers, id \in 1..MaxPayments, body \in UpdateInputs :
       Ready /\ Sends(user, id, body) /\ payment_update(user, id, body)
  \/ \E user \in PayUsers, id \in 1..MaxPayments :
       Ready /\ (user = "guest" => id = 1) /\ payment_destroy(user, id)
  \/ \E p \in LoadInputs : Ready /\ load_project(p)
  \/ Ready /\ held_update_status_from_payments

SpecPay == InitPay /\ [][NextPay]_vars

\* ---------------------------------------------------------------- C16
PaymentOps == {"payment_create", "payment_update", "payment_destroy"}

\* the contract value the percentages are taken of, 0 when there is none
TotalValue(p) ==
  IF contracts[p].exists /\ contracts[p].value_set THEN contracts[p].total_project_value ELSE 0

TotalPaid(p) == sum_amounts({x \in payments : x.project = p})

\* some payment of p that no other payment of p follows by date, then created_at,
\* is dated strictly more than 180 days before today
LatestIsOld(p) ==
  \E x \in payments :
    /\ x.project = p
    /\ \A y \in payments :
         y.project = p => (y.date < x.date \/ (y.date = x.date /\ y.created_at <= x.created_at))
    /\ today - x.date > 180

\* the label of the first rule of the priority list that matches project p
FirstMatchingRule(p) ==
  LET count == Cardinality({x \in payments : x.project = p})
      paid == TotalPaid(p)
      value == TotalValue(p) IN
  CASE count = 0 -> "not_started"
    [] count > 0 /\ value > 0 /\ paid * 100 >= 100 * value -> "completed"
    [] count > 0 /\ value > 0 /\ paid * 100 < 100 * value /\ paid * 100 >= 91 * value
         -> "handover_stage"
    [] OTHER ->
         IF value > 0 /\ (value - paid) * 100 < 5 * value /\ paid * 100 < 91 * value
         THEN "pending_financial_closure"
         ELSE IF LatestIsOld(p) THEN "temporarily_suspended"
         ELSE IF count = 1 THEN "execution_started"
         ELSE "under_execution"

\* C16: for every payment ledger, contract value and current date, the status a
\* freshly loaded project derives is the label of the first matching rule in
\* the order: no payments -> not_started; paid/value >= 100% -> completed;
\* >= 91% -> handover_stage; remaining < 5% with completion < 91% ->
\* pending_financial_closure; latest payment more than 180 days before today ->
\* temporarily_suspended; one payment -> execution_started; more ->
\* under_execution.
C16_FirstMatchingRule ==
  \A p \in Projects :
    projects[p].exists =>
      calculate_status_from_payments(fresh(p), payments) = FirstMatchingRule(p)

\* a payment request has left p1, of contract value 100, with several payments
\* all older than 180 days whose total reaches the value: stored as completed
C16_Witness ==
  /\ last.op \in PaymentOps /\ last.outcome = "OK" /\ last.project = "p1"
  /\ TotalValue("p1") = 100
  /\ Cardinality({x \in payments : x.project = "p1"}) > 1
  /\ TotalPaid("p1") >= 100
  /\ LatestIsOld("p1")
  /\ projects["p1"].status = "completed"

\* ---------------------------------------------------------------- C17
\* the latest payment of p is dated exactly days before today
LatestDaysAgo(p, days) ==
  \E x \in payments :
    /\ x.project = p
    /\ \A y \in payments : y.project = p => y.date <= x.date
    /\ today - x.date = days

\* the latest payment of p is dated within the last 180 days
LatestIsRecent(p) == \E x \in payments : x.project = p /\ today - x.date <= 180

\* C17 as stated: on a project of contract value 100 (thousand), the stored
\* status read after each ledger change is execution_started with one payment
\* of 10, under_execution with 10 and 20, temporarily_suspended with a total of
\* 40 and the last payment 200 days ago, pending_financial_closure with a recent
\* payment bringing the total to 96, handover_stage with a total of 92, and
\* completed with a total of 100.
C17_Original ==
  (/\ last.op \in PaymentOps /\ last.outcome = "OK" /\ last.project = "p1"
   /\ TotalValue("p1") = 100)
  => LET count == Cardinality({x \in payments : x.project = "p1"})
         paid == TotalPaid("p1")
         status == projects["p1"].status IN
     /\ (count = 1 /\ paid = 10 /\ LatestIsRecent("p1")) => status = "execution_started"
     /\ (count = 2 /\ paid = 30 /\ LatestIsRecent("p1")) => status = "under_execution"
     /\ (paid = 40 /\ LatestDaysAgo("p1", 200)) => status = "temporarily_suspended"
     /\ (paid = 96 /\ LatestIsRecent("p1")) => status = "pending_financial_closure"
     /\ paid = 92 => status = "handover_stage"
     /\ paid = 100 => status = "completed"

\* ---------------------------------------------------------------- C18
\* a recomputation that follows another one on the same object with nothing in
\* between computes the same label, writes nothing and returns False
C18_SameObject ==
  (last.op = "update_status_from_payments" /\ last'.op = "update_status_from_payments")
  => /\ in_memory'.status = in_memory.status
     /\ projects' = projects
     /\ last'.arg = "False"

\* a recomputation on a freshly loaded object whose stored status is already the
\* derived one writes nothing and returns False
C18_FreshObject ==
  (/\ last.op = "load_project" /\ last'.op = "update_status_from_payments"
   /\ projects[in_memory.pk].status = FirstMatchingRule(in_memory.pk))
  => /\ projects' = projects
     /\ last'.arg = "False"

\* a recomputation changes the stored status only to a label that differs from it
C18_WritesOnlyWhenDifferent ==
  (last'.op = "update_status_from_payments" /\ projects' # projects)
  => in_memory'.status # projects[in_memory.pk].status

C18_StepOriginal == C18_SameObject /\ C18_FreshObject /\ C18_WritesOnlyWhenDifferent

\* C18 as stated: recomputing the status twice on the same ledger with no
\* payment or contract change in between is a no-op, whether the second
\* update_status_from_payments runs on the same project object or on a freshly
\* loaded one: same label, no row written, False returned; and a recomputation
\* writes the status only when the computed label differs from the stored one.
C18_Original == [][C18_StepOriginal]_vars

\* ---------------------------------------------------------------- C19
\* the projects whose ledger the step has changed
LedgerChanged(p) == {x \in payments' : x.project = p} # {x \in payments : x.project = p}

C19_StepOriginal ==
  (last'.op \in PaymentOps /\ last'.outcome = "OK")
  => \A p \in Projects :
       (projects'[p].exists /\ LedgerChanged(p))
       => projects'[p].status = FirstMatchingRule(p)'

\* C19 as stated: after every payment create, update (of amount, date or of the
\* project the payment belongs to) or delete, the stored status of every
\* project whose ledger the operation changed equals the status derived from
\* that project's current ledger and contract.
C19_Original == [][C19_StepOriginal]_vars

\* ---------------------------------------------------------------- C20
\* project p has no contract, or a contract whose total value is unset or zero
NoValue(p) ==
  \/ ~contracts[p].exists
  \/ ~contracts[p].value_set
  \/ contracts[p].total_project_value = 0

PercentageLabels == {"completed", "handover_stage", "pending_financial_closure"}

\* C20 as stated: without a contract, or with a total value of zero or unset,
\* the derived status depends on the payment count alone: never completed,
\* handover_stage or pending_financial_closure, execution_started for exactly
\* one payment and under_execution for more than one.
C20_Original ==
  \A p \in Projects :
    (projects[p].exists /\ NoValue(p)) =>
      LET count == Cardinality({x \in payments : x.project = p})
          derived == calculate_status_from_payments(fresh(p), payments) IN
      /\ derived \notin PercentageLabels
      /\ count = 1 => derived = "execution_started"
      /\ count > 1 => derived = "under_execution"

\* C20: without a contract, or with a total value of zero or unset, the derived
\* status is never completed, handover_stage or pending_financial_closure; it is
\* not_started without payments, temporarily_suspended when the latest payment
\* is dated more than 180 days before today, and otherwise execution_started
\* for exactly one payment and under_execution for more than one.
C20_CountAndRecency ==
  \A p \in Projects :
    (projects[p].exists /\ NoValue(p)) =>
      LET count == Cardinality({x \in payments : x.project = p})
          derived == calculate_status_from_payments(fresh(p), payments) IN
      /\ derived \notin PercentageLabels
      /\ count = 0 => derived = "not_started"
      /\ (count > 0 /\ LatestIsOld(p)) => derived = "temporarily_suspended"
      /\ (count = 1 /\ ~LatestIsOld(p)) => derived = "execution_started"
      /\ (count > 1 /\ ~LatestIsOld(p)) => derived = "under_execution"

\* a payment request has left p1, whose contract has the total value 0, with
\* one payment older than 180 days: stored as temporarily_suspended
C20_Witness ==
  /\ last.op \in PaymentOps /\ last.outcome = "OK" /\ last.project = "p1"
  /\ contracts["p1"].exists /\ NoValue("p1")
  /\ Cardinality({x \in payments : x.project = "p1"}) = 1
  /\ LatestIsOld("p1")
  /\ projects["p1"].status = "temporarily_suspended"

\* ============================================ recomputation errors (SpecFault)
\* the payment requests of SpecPay, made while one step of the recomputation
\* raises on every call
InitFault ==
  /\ role_permissions = [r \in Roles |-> IF r = "Manager" THEN {"can_edit"} ELSE {}]
  /\ rules = InitRules
  /\ stage_active = [s \in Stages |-> TRUE]
  /\ stage_deleted = {}
  /\ projects = [p \in Projects |-> NewProject("t1", "s1")]
  /\ payments = {}
  /\ audit = <<>>
  /\ now = 0
  /\ pending_changes = [c \in PendingChanges |-> Deleted]
  /\ last = Request("none", None, None, "", "none")
  /\ reqs = [r \in ReqIds |-> NoReq]
  /\ \E contract \in ContractInputs :
       contracts = [p \in Projects |-> IF p = "p1" THEN contract ELSE Deleted]
  /\ today \in TodayInputs
  /\ in_memory = NoInstance
  /\ fault \in FaultInputs

NextFault ==
  \/ \E user \in PayUsers, id \in 1..MaxPayments, body \in PaymentInputs :
       Ready /\ Sends(user, id, body) /\ payment_create(user, id, body)
  \/ \E user \in PayUsers, id \in 1..MaxPayments, body \in UpdateInputs :
       Ready /\ Sends(user, id, body) /\ payment_update(user, id, body)
  \/ \E user \in PayUsers, id \in 1..MaxPayments :
       Ready /\ (user = "guest" => id = 1) /\ payment_destroy(user, id)

SpecFault == InitFault /\ [][NextFault]_vars

\* ---------------------------------------------------------------- C21
\* the steps whose error is an error of loading the ledger or the contract
LoadFaults == {"contract", "ledger_count", "ledger_rows"}

C21_StepOriginal ==
  (last'.op \in PaymentOps /\ can_manage_payments(last'.user))
  => /\ last'.outcome = "OK"
     /\ \A p \in Projects :
          (p = last'.project /\ fault \in LoadFaults)
          => calculate_status_from_payments(fresh(p), payments)' = "not_started"

\* C21 as stated: an error raised while loading the ledger or the contract is
\* swallowed and the derivation yields not_started, and no error of the
\* recomputation or of its write reaches the payment create, update or delete
\* that triggered it, which still succeeds.
C21_Original == [][C21_StepOriginal]_vars

\* ===================================== transitions and recomputation (SpecAxes)
\* Workflow requests on p1, statement by statement as in SpecConc, interleaved
\* with payment requests whose status recomputation is a statement of its own.

\* the transitions that keep the project
AxisOps == {"submit", "approve", "reject", "request_delete", "move_to_stage"}

\* bodies of POST /payments/ that are explored here
AxisPayments == {[project |-> "p1", amount |-> 70, date |-> 200]}

\* the users whose workflow requests are explored here
AxisUsers == {"admin", "mgr"}

\* PaymentViewSet.perform_create up to the signal's Project.objects.get: the
\* Payment row is inserted and the project is loaded
payment_insert(user, id, body) ==
  /\ ~in_memory.loaded
  /\ can_manage_payments(user)
  /\ \A x \in payments : x.id < id
  /\ \A smaller \in 1..(id - 1) : \E x \in payments : x.id >= smaller
  /\ projects[body.project].exists
  /\ payments' = payments \cup {PaymentRow(id, body.project, body.amount, body.date)}
  /\ in_memory' = fresh(body.project)
  /\ UNCHANGED <<role_permissions, rules, stage_active, projects, audit, now,
                 pending_changes, last, reqs, stage_deleted, contracts, today, fault>>

\* the rest of the signal: project.update_status_from_payments() on the loaded
\* object, an UPDATE of the status column when the label differs, and the
\* payment request's response
signal_recompute ==
  /\ in_memory.loaded
  /\ LET new_status == calculate_status_from_payments(in_memory, payments)
         changed == /\ new_status # Raised
                    /\ in_memory.status # new_status
                    /\ fault # "write" IN
     projects' = IF changed /\ projects[in_memory.pk].exists
                 THEN [projects EXCEPT ![in_memory.pk].status = new_status]
                 ELSE projects
  /\ in_memory' = NoInstance
  /\ last' = Request("payment_create", "admin", in_memory.pk, "", "OK")
  /\ UNCHANGED <<role_permissions, rules, stage_active, payments, audit, now,
                 pending_changes, reqs, stage_deleted, contracts, today, fault>>

\* project p1 as created, in stage s1 of tenant t1, with a contract of value 100
InitAxes ==
  /\ role_permissions = [r \in Roles |-> IF r = "Manager" THEN {"can_edit"} ELSE {}]
  /\ rules = InitRules
  /\ stage_active = [s \in Stages |-> TRUE]
  /\ stage_deleted = {}
  /\ projects = [p \in Projects |-> IF p = "p1" THEN NewProject("t1", "s1") ELSE Deleted]
  /\ payments = {}
  /\ audit = <<>>
  /\ now = 0
  /\ pending_changes = [c \in PendingChanges |-> Deleted]
  /\ last = Request("none", None, None, "", "none")
  /\ reqs = [r \in ReqIds |-> NoReq]
  /\ contracts = [p \in Projects |-> IF p = "p1" THEN ContractRow(TRUE, 100) ELSE Deleted]
  /\ today = 200
  /\ in_memory = NoInstance
  /\ fault = "none"

NextAxes ==
  \/ \E r \in ReqIds, op \in AxisOps, user \in AxisUsers, p \in ProjectInputs :
       \E arg \in ArgInputs(op) : begin_request(r, op, user, p, arg)
  \/ \E r \in ReqIds : save_step(r)
  \/ \E r \in ReqIds : log_step(r)
  \/ \E id \in 1..(MaxPayments - 1), body \in AxisPayments :
       payment_insert("admin", id, body)
  \/ signal_recompute

SpecAxes == InitAxes /\ [][NextAxes]_vars

\* ---------------------------------------------------------------- C22
\* the step is the save of a workflow request
IsTransitionSave == \E r \in ReqIds : reqs[r].pc = "save" /\ reqs'[r].pc = "log"

\* the step is the status recomputation a payment triggered
IsRecomputation == in_memory.loaded /\ ~in_memory'.loaded

C22_Step ==
  \A p \in Projects :
    (projects[p].exists /\ projects'[p].exists) =>
      /\ IsTransitionSave => projects'[p].status = projects[p].status
      /\ IsRecomputation => projects'[p] = [projects[p] EXCEPT !.status = projects'[p].status]
      /\ projects'[p] # projects[p] => (IsTransitionSave \/ IsRecomputation)

\* C22: the approval axis and the operational axis are independent. The save of
\* submit, approve, reject, request_delete or move_to_stage never changes a
\* project's operational status, and a payment-triggered recomputation changes
\* nothing but the status, also when the two interleave on the same project:
\* each writes its own columns into the row as it stands.
C22_Independent == [][C22_Step]_vars

\* a transition answered OK had read the project before a recomputation
\* committed another status; the row holds the recomputed status and the
\* transition's approval_status
C22_Witness ==
  /\ ~in_memory.loaded
  /\ \E r \in ReqIds :
       /\ reqs[r].pc = "done"
       /\ "loaded" \in DOMAIN reqs[r]
       /\ last.outcome = "OK" /\ last.op = reqs[r].op /\ last.user = reqs[r].user
       /\ projects["p1"].exists
       /\ reqs[r].loaded.status # projects["p1"].status
       /\ projects["p1"].status = FirstMatchingRule("p1")
       /\ projects["p1"].approval_status = reqs[r].instance.approval_status
       /\ projects["p1"].approval_status # "draft"

\* ======================= the project and pending-change resources (SpecResource)
\* The generic operations of ProjectViewSet and PendingChangeViewSet (both are
\* ModelViewSets registered with a DefaultRouter) next to approve and reject of
\* a pending change.

ResourceUsers == {"root", "admin", "mgr", "staff", "alien"}

\* bodies of POST /projects/ that are explored
CreateBodies == {[approval_notes |-> "created"]}

\* bodies of PATCH /projects/<id>/ that are explored: fields ProjectSerializer
\* leaves writable
ProjectBodies ==
  {[approval_notes |-> "edited"], [status |-> "in_progress"], [current_stage |-> "s2"]}

\* bodies of POST /pending-changes/ that are explored: staff files an update and
\* a delete of p1
ChangeBodies ==
  {[requested_by |-> "staff", tenant |-> "t1", action |-> "update",
    model_name |-> "Project", object_id |-> "p1", data |-> [approval_notes |-> "edited"]],
   [requested_by |-> "staff", tenant |-> "t1", action |-> "delete",
    model_name |-> "Project", object_id |-> "p1", data |-> [approval_notes |-> ""]]}

\* bodies of PATCH /pending-changes/<id>/ that are explored: fields
\* PendingChangeSerializer leaves writable
ChangeEdits ==
  {[status |-> "approved"], [status |-> "pending"], [tenant |-> "t2"],
   [data |-> [approval_notes |-> "forged"]]}

\* authentication.utils.is_staff_user
is_staff_user(user) ==
  IF User[user].is_superuser THEN FALSE
  ELSE User[user].role # None /\ User[user].role = "staff_user"

\* authentication.utils.requires_approval
requires_approval(user) ==
  IF User[user].is_superuser \/ is_company_admin(user) THEN FALSE
  ELSE IF is_staff_user(user) THEN TRUE
  ELSE FALSE

\* authentication.utils.create_pending_change: PendingChange.objects.create
PendingChangeRow(user, tenant, action, object_id, data, t) ==
  [exists |-> TRUE, requested_by |-> user, tenant |-> tenant,
   action |-> action, model_name |-> "Project", object_id |-> object_id, data |-> data,
   status |-> "pending", reviewed_by |-> None, reviewed_at |-> None,
   review_notes |-> "", created_at |-> t]

ResourceRefuse(op, user, p, arg, outcome) ==
  /\ last' = Request(op, user, p, arg, outcome)
  /\ UNCHANGED <<role_permissions, rules, stage_active, projects, payments, audit, now,
                 pending_changes, reqs, stage_deleted, pay_vars>>

\* ProjectViewSet.perform_create: for a user who requires approval a pending
\* change is filed, log_audit is called and the request is answered 400 with
\* requires_approval; for the others the project is saved with the user's tenant
project_create(user, p, c, body) ==
  /\ now < MaxTime
  /\ now' = now + 1
  /\ IF requires_approval(user)
     THEN /\ ~pending_changes[c].exists
          /\ \E stored \in BOOLEAN :
               /\ pending_changes' = [pending_changes EXCEPT ![c] =
                     PendingChangeRow(user, User[user].tenant, "create", "new", body, now)]
               /\ audit' = log_audit(audit, stored,
                             AuditRow(user, "create", "Project", None, None, None, None))
               /\ last' = Request("project_create", user, None, c,
                                  IF stored THEN "Deferred" ELSE "ServerError")
          /\ UNCHANGED <<role_permissions, rules, stage_active, projects, payments, reqs,
                         stage_deleted, pay_vars>>
     ELSE /\ ~projects[p].exists
          /\ projects' = [projects EXCEPT ![p] =
                            apply_data(NewProject(User[user].tenant, None), body)]
          /\ last' = Request("project_create", user, p, "", "OK")
          /\ UNCHANGED <<role_permissions, rules, stage_active, payments, audit,
                         pending_changes, reqs, stage_deleted, pay_vars>>

\* ProjectViewSet update / partial_update (UpdateModelMixin, not overridden):
\* the writable fields of the body are saved on the row
project_update(user, p, body) ==
  IF p \notin get_queryset(user)
  THEN ResourceRefuse("project_update", user, p, "", "NotFound")
  ELSE /\ now < MaxTime
       /\ projects' = [projects EXCEPT ![p] = apply_data(@, body)]
       /\ now' = now + 1
       /\ last' = Request("project_update", user, p, "", "OK")
       /\ UNCHANGED <<role_permissions, rules, stage_active, payments, audit,
                      pending_changes, reqs, stage_deleted, pay_vars>>

\* ProjectViewSet destroy (DestroyModelMixin, not overridden): instance.delete()
project_destroy(user, p) ==
  IF p \notin get_queryset(user)
  THEN ResourceRefuse("project_destroy", user, p, "", "NotFound")
  ELSE /\ now < MaxTime
       /\ projects' = [projects EXCEPT ![p] = Deleted]
       /\ payments' = delete_cascade(payments, p)
       /\ now' = now + 1
       /\ last' = Request("project_destroy", user, p, "", "OK")
       /\ UNCHANGED <<role_permissions, rules, stage_active, audit,
                      pending_changes, reqs, stage_deleted, pay_vars>>

\* PendingChangeViewSet.reject: the checks of approve, then status, reviewer,
\* time and notes are saved, then log_audit
pending_change_reject(user, c, review_notes) ==
  IF c \notin pending_change_queryset(user)
  THEN ResourceRefuse("pending_change_reject", user, None, c, "NotFound")
  ELSE LET pending_change == pending_changes[c]
           verdict == pending_change_approve_checks(user, pending_change) IN
       IF verdict # "pass"
       THEN ResourceRefuse("pending_change_reject", user, None, c, verdict)
       ELSE \E stored \in BOOLEAN :
              /\ now < MaxTime
              /\ pending_changes' = [pending_changes EXCEPT ![c] =
                    [@ EXCEPT !.status = "rejected", !.reviewed_by = user,
                              !.reviewed_at = now, !.review_notes = review_notes]]
              /\ audit' = log_audit(audit, stored,
                            AuditRow(user, "reject", pending_change.model_name,
                                     pending_change.object_id, None, None, None))
              /\ now' = now + 1
              /\ last' = Request("pending_change_reject", user, None, c, AfterAudit(stored))
              /\ UNCHANGED <<role_permissions, rules, stage_active, projects, payments,
                             reqs, stage_deleted, pay_vars>>

\* PendingChangeViewSet update / partial_update (not overridden): the writable
\* fields of the body are saved on the row
pending_change_update(user, c, body) ==
  IF c \notin pending_change_queryset(user)
  THEN ResourceRefuse("pending_change_update", user, None, c, "NotFound")
  ELSE /\ now < MaxTime
       /\ pending_changes' = [pending_changes EXCEPT ![c] = apply_data(@, body)]
       /\ now' = now + 1
       /\ last' = Request("pending_change_update", user, None, c, "OK")
       /\ UNCHANGED <<role_permissions, rules, stage_active, projects, payments, audit,
                      reqs, stage_deleted, pay_vars>>

\* PendingChangeViewSet destroy (not overridden)
pending_change_destroy(user, c) ==
  IF c \notin pending_change_queryset(user)
  THEN ResourceRefuse("pending_change_destroy", user, None, c, "NotFound")
  ELSE /\ now < MaxTime
       /\ pending_changes' = [pending_changes EXCEPT ![c] = Deleted]
       /\ now' = now + 1
       /\ last' = Request("pending_change_destroy", user, None, c, "OK")
       /\ UNCHANGED <<role_permissions, rules, stage_active, projects, payments, audit,
                      reqs, stage_deleted, pay_vars>>

\* project p1 of tenant t1 in stage s1, no pending change
InitResource ==
  /\ InitTables
  /\ projects = [p \in Projects |-> IF p = "p1" THEN NewProject("t1", "s1") ELSE Deleted]

\* a run goes on from a request that wrote something
ReadyResource == last.outcome \in {"none", "OK", "ServerError", "Deferred"}

NextResource ==
  \/ \E user \in ResourceUsers, p \in Projects, c \in PendingChanges, body \in CreateBodies :
       ReadyResource /\ project_create(user, p, c, body)
  \/ \E user \in ResourceUsers, p \in ProjectInputs, body \in ProjectBodies :
       ReadyResource /\ project_update(user, p, body)
  \/ \E user \in ResourceUsers, p \in ProjectInputs :
       ReadyResource /\ project_destroy(user, p)
  \/ \E user \in ResourceUsers, c \in PendingChanges, body \in ChangeBodies :
       ReadyResource /\ pending_change_create(user, c, body)
  \/ \E user \in ResourceUsers, c \in PendingChanges :
       ReadyResource /\ pending_change_approve(user, c)
  \/ \E user \in ResourceUsers, c \in PendingChanges, review_notes \in NotesInputs :
       ReadyResource /\ pending_change_reject(user, c, review_notes)
  \/ \E user \in ResourceUsers, c \in PendingChanges, body \in ChangeEdits :
       ReadyResource /\ pending_change_update(user, c, body)
  \/ \E user \in ResourceUsers, c \in PendingChanges :
       ReadyResource /\ pending_change_destroy(user, c)

SpecResource == InitResource /\ [][NextResource]_vars

\* ---------------------------------------------------------------- C23
\* the step files exactly one pending change, for user, pending
FilesOneChange(user) ==
  \E c \in PendingChanges :
    /\ ~pending_changes[c].exists /\ pending_changes'[c].exists
    /\ pending_changes'[c].status = "pending"
    /\ pending_changes'[c].requested_by = user
    /\ pending_changes'[c].tenant = User[user].tenant
    /\ \A d \in PendingChanges \ {c} : pending_changes'[d] = pending_changes[d]

C23_Deferred(ops) ==
  (/\ last'.op \in ops
   /\ requires_approval(last'.user)
   /\ last'.outcome # "NotFound")
  => /\ projects' = projects
     /\ payments' = payments
     /\ FilesOneChange(last'.user)

C23_StepOriginal == C23_Deferred({"project_create", "project_update", "project_destroy"})

\* C23 as stated: for an actor whose role requires approval (staff_user) every
\* create, update and delete of a project is deferred: the request leaves the
\* projects as they are and records exactly one PendingChange with status
\* 'pending', the requester and the requester's tenant.
C23_Original == [][C23_StepOriginal]_vars

\* ---------------------------------------------------------------- C24
ResolveOps == {"pending_change_approve", "pending_change_reject"}

\* the reviewers the claim names for a change: a superuser, or a company admin
\* or manager of the tenant of the change
Reviewer(user, pending_change) ==
  \/ User[user].is_superuser
  \/ /\ User[user].role \in {"company_super_admin", "Manager"}
     /\ User[user].tenant = pending_change.tenant

Resolution(op) == IF op = "pending_change_approve" THEN "approved" ELSE "rejected"

C24_StepOriginal ==
  \A c \in PendingChanges :
    (/\ last'.op \in ResolveOps /\ last'.arg = c
     /\ pending_changes[c].exists /\ pending_changes[c].status = "pending")
    => IF Reviewer(last'.user, pending_changes[c])
       THEN (last'.op = "pending_change_approve" => change_applies(pending_changes[c]))
            => /\ pending_changes'[c].status = Resolution(last'.op)
               /\ pending_changes'[c].reviewed_by = last'.user
       ELSE /\ last'.outcome \in {"NotFound", "PermissionDenied"}
            /\ pending_changes' = pending_changes
            /\ projects' = projects

\* C24 as stated: approve and reject of a pending change succeed for exactly a
\* superuser and the company admins and managers of the tenant of the change;
\* every other actor is refused, the change stays 'pending' and the subject is
\* untouched.
C24_Original == [][C24_StepOriginal]_vars

\* ---------------------------------------------------------------- C25
C25_Step(reviewers) ==
  \A c \in PendingChanges :
    (/\ last'.op \in ResolveOps /\ last'.arg = c /\ last'.user \in reviewers
     /\ pending_changes[c].exists
     /\ pending_changes[c].status \in {"approved", "rejected"}
     /\ Reviewer(last'.user, pending_changes[c]))
    => /\ last'.outcome = "InvalidState"
       /\ projects' = projects
       /\ payments' = payments
       /\ pending_changes' = pending_changes

\* C25 as stated: approve or reject by an authorized reviewer on a change whose
\* status is 'approved' or 'rejected' fails with InvalidState, applies nothing
\* to the subject and leaves the status, reviewer, review time and notes of the
\* change as they are.
C25_Original == [][C25_Step(ResourceUsers)]_vars

\* ---------------------------------------------------------------- C26
ChangeOps ==
  {"pending_change_create", "pending_change_approve", "pending_change_reject",
   "pending_change_update", "pending_change_destroy"}

\* the step is an approve of change c answered OK that applied the change
ApprovedAndApplied(c) ==
  /\ last'.op = "pending_change_approve" /\ last'.arg = c /\ last'.outcome = "OK"
  /\ change_applies(pending_changes[c])
  /\ projects' = apply_change(pending_changes[c])

C26_StepOriginal ==
  \A c \in PendingChanges :
    /\ (/\ pending_changes'[c].exists /\ pending_changes'[c].status = "approved"
        /\ ~(pending_changes[c].exists /\ pending_changes[c].status = "approved"))
       => ApprovedAndApplied(c)
    /\ (last'.op \in ChangeOps /\ last'.arg = c /\ projects' # projects)
       => ApprovedAndApplied(c)
    /\ (last'.op = "pending_change_reject" /\ last'.arg = c /\ last'.outcome = "OK")
       => /\ projects' = projects
          /\ pending_changes'[c].status = "rejected"
          /\ pending_changes'[c].reviewed_by = last'.user
          /\ pending_changes'[c].reviewed_at = now
    /\ (last'.op = "pending_change_approve" /\ last'.arg = c /\ last'.outcome = "ServerError")
       => /\ projects' = projects
          /\ pending_changes' = pending_changes

\* C26 as stated: a pending change becomes 'approved' only with its create,
\* update or delete applied to the subject, the subject is changed on behalf of
\* a change only by a successful approve, reject sets 'rejected' with reviewer,
\* time and notes and leaves the subject alone, and an approve that fails leaves
\* the change 'pending' and the subject unchanged.
C26_Original == [][C26_StepOriginal]_vars

\* ---------------------------------------------------------------- C27
\* Resolve requests for one pending change, taken statement by statement: no
\* transaction and no row lock spans the statements of approve or reject, so
\* two requests interleave between get_object, the mutation, save and log_audit.
ResolveUsers == {"root", "admin"}
ResolveNotes == {"no"}

\* the pending changes the runs start from: a create, an update and a delete
\* filed by staff of tenant t1
ResolveInputs ==
  {PendingChangeRow("staff", "t1", "create", "new", [approval_notes |-> "created"], 0),
   PendingChangeRow("staff", "t1", "update", "p1", [approval_notes |-> "edited"], 0),
   PendingChangeRow("staff", "t1", "delete", "p1", [approval_notes |-> ""], 0)}

ResolveDone(r, outcome) ==
  /\ last' = Request(reqs[r].op, reqs[r].user, None, reqs[r].arg, outcome)
  /\ reqs' = [reqs EXCEPT ![r].pc = "done"]

\* get_object and the checks of approve (1035-1056) or reject (1139-1161): the
\* request keeps the row it read
resolve_begin(r, op, user, c, review_notes) ==
  /\ reqs[r].pc = "idle"
  /\ UNCHANGED <<role_permissions, rules, stage_active, projects, payments, audit, now,
                 pending_changes, stage_deleted, pay_vars>>
  /\ LET verdict == IF c \notin pending_change_queryset(user) THEN "NotFound"
                    ELSE pending_change_approve_checks(user, pending_changes[c]) IN
     IF verdict # "pass"
     THEN /\ last' = Request(op, user, None, c, verdict)
          /\ reqs' = [reqs EXCEPT ![r] =
                        [pc |-> "done", op |-> op, user |-> user, arg |-> c,
                         applied |-> FALSE]]
     ELSE /\ last' = last
          /\ reqs' = [reqs EXCEPT ![r] =
                        [pc |-> IF op = "pending_change_approve" THEN "apply" ELSE "mark",
                         op |-> op, user |-> user, arg |-> c, applied |-> FALSE,
                         review_notes |-> review_notes,
                         pending_change |-> pending_changes[c]]]

\* approve, 1058-1102: the create, update or delete of the row the request
\* read; DoesNotExist is caught by the handler's except and answered 500
resolve_apply(r) ==
  /\ reqs[r].pc = "apply"
  /\ UNCHANGED <<role_permissions, rules, stage_active, audit, now, pending_changes,
                 stage_deleted, pay_vars>>
  /\ LET pending_change == reqs[r].pending_change IN
     IF ~change_applies(pending_change)
     THEN /\ ResolveDone(r, "ServerError")
          /\ UNCHANGED <<projects, payments>>
     ELSE /\ projects' = apply_change(pending_change)
          /\ payments' = IF pending_change.action = "delete"
                         THEN delete_cascade(payments, change_subject(pending_change))
                         ELSE payments
          /\ reqs' = [reqs EXCEPT ![r].pc = "mark", ![r].applied = TRUE]
          /\ last' = last

\* approve 1104-1108, reject 1166-1171: pending_change.save() writes every
\* column of the instance the request holds
resolve_mark(r) ==
  /\ reqs[r].pc = "mark"
  /\ UNCHANGED <<role_permissions, rules, stage_active, projects, payments, audit,
                 stage_deleted, pay_vars>>
  /\ pending_changes' = [pending_changes EXCEPT ![reqs[r].arg] =
        IF reqs[r].op = "pending_change_approve"
        THEN [reqs[r].pending_change EXCEPT !.status = "approved",
                !.reviewed_by = reqs[r].user, !.reviewed_at = now]
        ELSE [reqs[r].pending_change EXCEPT !.status = "rejected",
                !.reviewed_by = reqs[r].user, !.reviewed_at = now,
                !.review_notes = reqs[r].review_notes]]
  /\ now' = now + 1
  /\ reqs' = [reqs EXCEPT ![r].pc = "log"]
  /\ last' = last

\* log_audit, then the Response
resolve_log(r) ==
  /\ reqs[r].pc = "log"
  /\ UNCHANGED <<role_permissions, rules, stage_active, projects, payments, now,
                 pending_changes, stage_deleted, pay_vars>>
  /\ \E stored \in BOOLEAN :
       /\ audit' = log_audit(audit, stored,
                     AuditRow(reqs[r].user,
                              IF reqs[r].op = "pending_change_approve"
                              THEN "approve" ELSE "reject",
                              reqs[r].pending_change.model_name,
                              reqs[r].pending_change.object_id, None, None, None))
       /\ ResolveDone(r, AfterAudit(stored))

\* one pending change c1 filed by staff; p1 exists when the change names it
InitResolve ==
  /\ role_permissions = [r \in Roles |-> IF r = "Manager" THEN {"can_edit"} ELSE {}]
  /\ rules = InitRules
  /\ stage_active = [s \in Stages |-> TRUE]
  /\ stage_deleted = {}
  /\ contracts = [p \in Projects |-> Deleted]
  /\ today = 0
  /\ in_memory = NoInstance
  /\ fault = "none"
  /\ audit = <<>>
  /\ now = 1
  /\ last = Request("none", None, None, "", "none")
  /\ reqs = [r \in ReqIds |-> NoReq]
  /\ \E row \in ResolveInputs :
       /\ pending_changes = [c \in PendingChanges |-> row]
       /\ projects = [p \in Projects |->
                        IF p = "p1" /\ row.action # "create"
                        THEN NewProject("t1", "s1") ELSE Deleted]
       /\ payments = IF row.action = "create" THEN {} ELSE {PaymentRow(1, "p1", 10, 0)}

NextResolve ==
  \/ \E r \in ReqIds, op \in ResolveOps, user \in ResolveUsers, c \in PendingChanges,
        review_notes \in ResolveNotes :
       resolve_begin(r, op, user, c, review_notes)
  \/ \E r \in ReqIds : resolve_apply(r)
  \/ \E r \in ReqIds : resolve_mark(r)
  \/ \E r \in ReqIds : resolve_log(r)

SpecResolve == InitResolve /\ [][NextResolve]_vars

\* the requests that applied the mutation of the change
Applied == {r \in ReqIds : reqs[r].pc # "idle" /\ reqs[r].applied}

\* every request was answered
Quiescent == \A r \in ReqIds : reqs[r].pc \in {"idle", "done"}

\* C27 as stated: under concurrent resolves of one pending change the mutation
\* is applied at most once, one 'create' change never leaves two created
\* projects, and the change never ends 'rejected' with its mutation applied.
C27_Original ==
  /\ Cardinality(Applied) <= 1
  /\ \A c \in PendingChanges :
       (pending_changes[c].exists /\ pending_changes[c].action = "create")
         => Cardinality({p \in Projects : projects[p].exists}) <= 1
  /\ \A c \in PendingChanges :
       (Quiescent /\ pending_changes[c].exists /\ pending_changes[c].status = "rejected")
         => Applied = {}

\* ---------------------------------------------------------------- C28
\* the three workflow columns of a project row
Axes(row) == <<row.approval_status, row.current_stage, row.status>>

C28_StepOriginal ==
  \A p \in Projects :
    /\ (projects[p].exists /\ projects'[p].exists /\ Axes(projects'[p]) # Axes(projects[p]))
       => last'.op \in WorkflowOps \cup PaymentOps
    /\ (last'.op = "project_update" /\ last'.project = p /\ projects[p].exists)
       => Axes(projects'[p]) = Axes(projects[p])
    /\ projects'[p].exists => projects'[p].status \in StatusLabels

\* C28 as stated: approval_status, current_stage and status of a project are
\* changed only by the workflow transitions and the payment-status deriver; a
\* generic update of the project resource changes none of them, and the stored
\* status is always a label the deriver produces.
C28_Original == [][C28_StepOriginal]_vars

\* ---------------------------------------------------------------- C29
\* the audit log holds a delete_approve entry for project p
HasDeleteApprove(log, p) ==
  \E i \in 1..Len(log) : log[i].action = "delete_approve" /\ log[i].object_id = p

C29_StepOriginal ==
  \A p \in Projects :
    (projects[p].exists /\ ~projects'[p].exists)
      => /\ last'.op = "approve_delete" /\ last'.project = p /\ last'.outcome = "OK"
         /\ projects[p].approval_status = "delete_requested"
         /\ HasDeleteApprove(audit', p)

\* C29 as stated: a project is removed only as the final effect of a successful
\* approve_delete after a request_delete; every deleted project had
\* approval_status 'delete_requested' just before and has a delete_approve
\* audit entry.
C29_Original == [][C29_StepOriginal]_vars

\* ---------------------------------------------------------------- C30
GenericChangeOps ==
  {"pending_change_create", "pending_change_update", "pending_change_destroy"}

\* the columns of a pending change the requester must not touch
Guarded(row) == <<row.status, row.reviewed_by, row.tenant, row.data>>

C30_StepOriginal ==
  \A c \in PendingChanges :
    /\ (/\ pending_changes[c].exists /\ pending_changes[c].status = "pending"
        /\ ~(pending_changes'[c].exists /\ pending_changes'[c].status = "pending"))
       => /\ last'.op \in ResolveOps /\ last'.arg = c
          /\ Reviewer(last'.user, pending_changes[c])
    /\ (/\ pending_changes[c].exists
        /\ last'.op \in GenericChangeOps /\ last'.arg = c
        /\ last'.user = pending_changes[c].requested_by)
       => /\ pending_changes'[c].exists
          /\ Guarded(pending_changes'[c]) = Guarded(pending_changes[c])

\* C30 as stated: the status of a pending change leaves 'pending' only through
\* approve or reject by an authorized reviewer; through the generic operations
\* of the resource the requester changes neither status, reviewer, tenant nor
\* proposed data of the change, and does not remove it.
C30_Original == [][C30_StepOriginal]_vars

====
